---- MODULE Spec2Model ----
(***************************************************************************)
(* Model of agb's HashMap (src/agb/src/hash_map.rs): a Robin-Hood          *)
(* open-addressing table with backward-shift deletion.                     *)
(*                                                                         *)
(* The variable `nodes` is the field HashMap.nodes, a NodeStorage, i.e. a  *)
(* record with the fields nodes (the Vec<Node>, a function on              *)
(* 0..capacity-1), max_distance_to_initial_bucket and number_of_items.     *)
(* A Node is a record hash / distance_to_initial_bucket / key / value;     *)
(* distance_to_initial_bucket = -1 means that key and value are            *)
(* uninitialised (the value Uninit stands for MaybeUninit::uninit()).      *)
(***************************************************************************)
EXTENDS Integers, Sequences, FiniteSets, TLC

VARIABLES nodes, hasher, debug_assertions, entry, answers, fatal, last,
          drop_registry, hashed, enemy

vars == <<nodes, hasher, debug_assertions, entry, answers, fatal, last,
          drop_registry, hashed, enemy>>

(***************************************************************************)
(* Bounds of the model.                                                    *)
(***************************************************************************)
\* keys are 0..NumKeys-1
NumKeys == 3
\* values are 1..NumValues
NumValues == 2
\* capacities requested at construction are 0..MaxInitCapacity (and new())
MaxInitCapacity == 4
\* capacities requested from resize are 0..MaxCapacity; no table grows past it
MaxCapacity == 16

Keys == 0 .. (NumKeys - 1)
Values == 1 .. NumValues

(***************************************************************************)
(* Program constants.                                                      *)
(***************************************************************************)
\* HashMap::new() is with_capacity(16)
DefaultCapacity == 16
\* let mut inserted_location = usize::MAX: the all-ones word, written as the
\* signed number with that bit pattern
USIZE_MAX == -1
\* a threshold of 100 percent: the table grows only when it is full
LoadPercentFull == 85 + 15

\* a load limit of the whole table: growth only once no node is left
LoadPercentWhole == 99 + 1

\* the load threshold of HashMap::insert, in percent
LoadPercent == 85
\* the content of a MaybeUninit::uninit() key or value; no accessor reads it
Uninit == -1

\* Option<T>: None is the empty set and Some(x) the singleton {x}
None == {}
Some(x) == {x}
unwrap(o) == CHOOSE x \in o : TRUE

NoFatal == "none"

(***************************************************************************)
(* HashType = u32.  A 32-bit word is the pair <<high half, low half>> of   *)
(* its 16-bit halves, so that sums keep their width.                       *)
(***************************************************************************)
Half == 65536

\* `n as HashType` for a small non-negative number n
as_HashType(n) == <<(n \div Half) % Half, n % Half>>

\* h + d on u32 for 0 <= d < 2^16: the wrapped sum, and whether it overflowed
u32_add(h, d) ==
    LET lo == h[2] + d
        hi == h[1] + (lo \div Half)
    IN  [sum |-> <<hi % Half, lo % Half>>, overflow |-> hi >= Half]

RECURSIVE BitAnd(_, _)
BitAnd(a, b) ==
    IF a = 0 \/ b = 0 THEN 0
    ELSE (a % 2) * (b % 2) + 2 * BitAnd(a \div 2, b \div 2)

\* the bit test n & (n - 1) == 0, which 0 passes
is_power_of_two_or_zero(n) == n = 0 \/ \E e \in 0 .. 30 : n = 2 ^ e

is_power_of_two(n) == \E e \in 0 .. 30 : n = 2 ^ e

\* (hash as usize) & (len - 1); len - 1 < 2^16, so only the low half counts
fast_mod(length, h) == BitAnd(h[2], length - 1)

\* a maximum that keeps the old bound whatever the new distance is
Max_keeps_bound(a, b) == b

\* a.max(b)
Max(a, b) == IF a >= b THEN a ELSE b

(***************************************************************************)
(* The hashing capability.  HashMap::hash feeds the key to the pluggable   *)
(* hasher and truncates the result to HashType.  A hasher is any function  *)
(* from keys to hash values; the table below is the hasher the model runs  *)
(* with: keys 0 and 1 share their ideal index in every table (the last     *)
(* slot of the tables of up to 8 slots, so that their probing wraps        *)
(* around), the ideal index of key 2 is the slot after it in those tables, *)
(* and key 3 joins keys 0 and 1 in the tables of up to 8 slots.            *)
(***************************************************************************)
HasherTable ==
    << <<0, 7>>, <<1, 7>>, <<0, 8>>, <<0, 15>>, <<0, 3>>, <<0, 22>>, <<2, 13>> >>

CollidingHasher == [k \in Keys |-> HasherTable[(k % Len(HasherTable)) + 1]]

hash(key) == hasher[key]

\* K: Eq.  A key is a number; the keys of the drop tests are Droppables, which
\* compare by their id (self.id == other.id): the key instance k is a clone of
\* the Droppable with the id k % NumIds.  A key below NumIds is its own id.
\* (The largest key set of the tests: for i in 0..65.)
NumIds == 65

key_id(key) == key % NumIds

key_eq(a, b) == key_id(a) = key_id(b)

(***************************************************************************)
(* Node                                                                    *)
(***************************************************************************)
\* Node::new
Node_new ==
    [hash |-> as_HashType(0), distance_to_initial_bucket |-> -1,
     key |-> Uninit, value |-> Uninit]

\* Node::new_with
new_with(key, value, h) ==
    [hash |-> h, distance_to_initial_bucket |-> 0, key |-> key, value |-> value]

has_value(node) == node.distance_to_initial_bucket >= 0

value_ref(node) == IF has_value(node) THEN Some(node.value) ELSE None

key_ref(node) ==
    IF node.distance_to_initial_bucket >= 0 THEN Some(node.key) ELSE None

get_distance(node) == node.distance_to_initial_bucket

\* increment_distance that adds two, so that the walk skips a node
increment_distance_by_two(node) ==
    [node EXCEPT !.distance_to_initial_bucket = @ + 2]

increment_distance(node) ==
    [node EXCEPT !.distance_to_initial_bucket = @ + 1]

\* decrement_distance that leaves the distance as it is
decrement_distance_forgotten(node) == node

\* decrement_distance that takes two off the distance
decrement_distance_by_two(node) ==
    [node EXCEPT !.distance_to_initial_bucket = @ - 2]

\* the caller checks the result: a negative distance is the panic
\* "Cannot decrement distance to below 0"
decrement_distance(node) ==
    [node EXCEPT !.distance_to_initial_bucket = @ - 1]

\* take_key_value that moves the payload out and leaves the distance, so
\* that the node still counts as one with a value
take_key_value_keeps_distance(node) ==
    IF has_value(node)
    THEN [node |-> [node EXCEPT !.key = Uninit, !.value = Uninit],
          taken |-> Some(<<node.key, node.value, node.hash>>)]
    ELSE [node |-> node, taken |-> None]

\* take_key_value that reads the payload out and leaves the node as it is
take_key_value_copied(node) ==
    IF has_value(node)
    THEN [node |-> node, taken |-> Some(<<node.key, node.value, node.hash>>)]
    ELSE [node |-> node, taken |-> None]

\* Node::take_key_value: the node left behind and the payload moved out; None
\* for a node without a value, which is left as it is.  The code leaves the
\* old hash in the emptied node; no operation reads the hash of a node
\* without a value (has_value and key_ref guard every read), so that every
\* such node is written with the hash of Node::new
take_key_value(node) ==
    IF has_value(node)
    THEN [node |-> [node EXCEPT !.key = Uninit, !.value = Uninit,
                                !.distance_to_initial_bucket = -1,
                                !.hash = Node_new.hash],
          taken |-> Some(<<node.key, node.value, node.hash>>)]
    ELSE [node |-> node, taken |-> None]

\* replace that stores the key and keeps the value the node had
replace_key_only(node, key, value) ==
    [node |-> [node EXCEPT !.key = key], old |-> <<node.key, node.value>>]

\* replace that keeps the key the node holds and gives the new key back
replace_value_only(node, key, value) ==
    [node |-> [node EXCEPT !.value = value], old |-> <<key, node.value>>]

\* Node::replace on a node with a value (the caller checks has_value)
replace(node, key, value) ==
    [node |-> [node EXCEPT !.key = key, !.value = value],
     old |-> <<node.key, node.value>>]

\* Node::replace_value on a node with a value
replace_value(node, value) ==
    [node |-> [node EXCEPT !.value = value], old |-> node.value]

(***************************************************************************)
(* NodeStorage.  The operations give the storage afterwards, their result, *)
(* and `fatal`: the panic that ended them (NoFatal if none did).           *)
(***************************************************************************)
AddOverflow == "attempt to add with overflow"
NoSpace == "Do not have space to insert"
DistanceBelowZero == "Cannot decrement distance to below 0"
NotPowerOfTwo == "Capacity must be a power of 2"
OnlyIncrease == "Can only increase the size of a hash map"
UnwrapNone == "called Option::unwrap on a None value"

\* NodeStorage::with_size, for a capacity that passed the power-of-two assert
with_size(cap) ==
    [nodes |-> [i \in 0 .. (cap - 1) |-> Node_new],
     max_distance_to_initial_bucket |-> 0,
     number_of_items |-> 0]

capacity(st) == Cardinality(DOMAIN st.nodes)

len(st) == st.number_of_items

\* a comparison that leaves an occupant of equal distance in place
swaps_if_smaller(current_node, new_node) ==
    get_distance(current_node) < get_distance(new_node)

\* if current_node.get_distance() <= new_node.get_distance()
swaps(current_node, new_node) ==
    get_distance(current_node) <= get_distance(new_node)

\* the probe loop of NodeStorage::insert_new.  A walk w is the state of the
\* loop: the storage, the node in hand, inserted_location, whether the loop
\* has ended (break, or a panic) and the panic.  insert_new_turn is one turn
\* of the loop
insert_new_turn(w) ==
    LET st == w.storage
        new_node == w.new_node
        sum == u32_add(new_node.hash, get_distance(new_node))
        location == fast_mod(capacity(st), sum.sum)
        current_node == st.nodes[location]
    IN  IF sum.overflow /\ debug_assertions
        THEN [w EXCEPT !.fatal = AddOverflow, !.done = TRUE]
        ELSE IF has_value(current_node)
        THEN LET swap == swaps(current_node, new_node)
                 carried == increment_distance(IF swap THEN current_node ELSE new_node)
             IN  [storage |->
                    [st EXCEPT
                        !.nodes = IF swap THEN [@ EXCEPT ![location] = new_node] ELSE @,
                        !.max_distance_to_initial_bucket = Max(get_distance(carried), @)],
                  new_node |-> carried,
                  location |-> IF swap /\ w.location = USIZE_MAX
                               THEN location ELSE w.location,
                  fatal |-> NoFatal,
                  done |-> FALSE]
        ELSE [storage |-> [st EXCEPT !.nodes = [@ EXCEPT ![location] = new_node]],
              new_node |-> new_node,
              location |-> IF w.location = USIZE_MAX THEN location ELSE w.location,
              fatal |-> NoFatal,
              done |-> TRUE]

\* up to n turns of the loop, one after the other (the turns are split in
\* halves to keep the evaluation shallow)
RECURSIVE insert_new_turns(_, _)
insert_new_turns(w, n) ==
    IF w.done \/ n <= 0 THEN w
    ELSE IF n = 1 THEN insert_new_turn(w)
    ELSE insert_new_turns(insert_new_turns(w, n \div 2), n - (n \div 2))

\* the loop runs until it ends: a walk passes one node per turn, so a table
\* with a node without a value ends it within capacity turns
RECURSIVE insert_new_walk(_)
insert_new_walk(w) ==
    IF w.done THEN w
    ELSE insert_new_walk(insert_new_turns(w, Max(capacity(w.storage), 1)))

\* what the loop leaves: the storage and inserted_location
insert_new_walked(w) ==
    [storage |-> w.storage, location |-> w.location, fatal |-> w.fatal]

insert_new_loop(st, new_node, inserted_location) ==
    insert_new_walked(insert_new_walk(
        [storage |-> st, new_node |-> new_node, location |-> inserted_location,
         fatal |-> NoFatal, done |-> FALSE]))

\* the debug_assert at the head of insert_new
insert_new_precondition(st) == (capacity(st) * LoadPercent) \div 100 > len(st)

\* the end of insert_new, after its loop gave r: self.number_of_items += 1
insert_new_counted(r) ==
    IF r.fatal # NoFatal THEN r ELSE [r EXCEPT !.storage.number_of_items = @ + 1]

\* insert_new that returns the ideal index of the key, not the index of the
\* node where the key was put down
insert_new_returns_ideal(st, key, value, h) ==
    [insert_new_counted(insert_new_loop(st, new_with(key, value, h), USIZE_MAX))
        EXCEPT !.location = fast_mod(capacity(st), h)]

\* NodeStorage::insert_new: the storage afterwards and the returned location
insert_new(st, key, value, h) ==
    IF debug_assertions /\ ~insert_new_precondition(st)
    THEN [storage |-> st, location |-> USIZE_MAX, fatal |-> NoSpace]
    ELSE insert_new_counted(insert_new_loop(st, new_with(key, value, h), USIZE_MAX))

\* remove_loop without the backward shift: the payload is taken where it
\* lies and the nodes after it stay where they are
remove_loop_no_shift(st, current_location) ==
    [storage |-> [st EXCEPT !.nodes[current_location] = take_key_value(@).node],
     value |-> Some(st.nodes[current_location].value),
     key |-> Some(st.nodes[current_location].key),
     fatal |-> NoFatal]

\* the loop of NodeStorage::remove_from_location
RECURSIVE remove_loop(_, _)
RECURSIVE remove_loop_to_empty(_, _)
\* remove_loop that stops only at a node without a value; a node at its own
\* ideal index is shifted back too
remove_loop_to_empty(st, current_location) ==
    LET next_location == fast_mod(capacity(st), as_HashType(current_location + 1))
        moved == decrement_distance(st.nodes[next_location])
        swapped == [st EXCEPT !.nodes =
                       [@ EXCEPT ![current_location] = moved,
                                 ![next_location] = st.nodes[current_location]]]
    IN  IF ~has_value(st.nodes[next_location])
        THEN [storage |-> [st EXCEPT !.nodes[current_location] = take_key_value(@).node],
              value |-> Some(st.nodes[current_location].value),
              key |-> Some(st.nodes[current_location].key),
              fatal |-> NoFatal]
        ELSE IF get_distance(moved) < 0
        THEN [storage |-> swapped, value |-> None, key |-> None,
                       fatal |-> DistanceBelowZero]
        ELSE remove_loop_to_empty(swapped, next_location)

remove_loop(st, current_location) ==
    LET next_location == fast_mod(capacity(st), as_HashType(current_location + 1))
    IN  IF \/ ~has_value(st.nodes[next_location])
           \/ get_distance(st.nodes[next_location]) = 0
        THEN LET t == take_key_value(st.nodes[current_location])
             IN  IF t.taken = None
                 THEN [storage |-> st, value |-> None, key |-> None,
                       fatal |-> UnwrapNone]
                 ELSE [storage |-> [st EXCEPT !.nodes[current_location] = t.node],
                       value |-> Some(unwrap(t.taken)[2]),
                       key |-> Some(unwrap(t.taken)[1]),
                       fatal |-> NoFatal]
        ELSE LET moved == decrement_distance(st.nodes[next_location])
                 swapped == [st EXCEPT !.nodes =
                                [@ EXCEPT ![current_location] = moved,
                                          ![next_location] = st.nodes[current_location]]]
             IN  IF get_distance(moved) < 0
                 THEN [storage |-> swapped, value |-> None, key |-> None,
                       fatal |-> DistanceBelowZero]
                 ELSE remove_loop(swapped, next_location)

\* remove_from_location without self.number_of_items -= 1
remove_from_location_uncounted(st, location) == remove_loop(st, location)

\* the largest distance of the nodes that have a value, 0 if there is none
largest_distance(st) ==
    LET distances == {get_distance(st.nodes[i]) : i \in DOMAIN st.nodes} \cup {0}
    IN  CHOOSE d \in distances : \A e \in distances : e <= d

\* remove_from_location that recomputes the bound from the nodes it leaves
remove_from_location_recomputed(st, location) ==
    [remove_loop([st EXCEPT !.number_of_items = @ - 1], location)
        EXCEPT !.storage.max_distance_to_initial_bucket = largest_distance(
            remove_loop([st EXCEPT !.number_of_items = @ - 1], location).storage)]

\* NodeStorage::remove_from_location
remove_from_location(st, location) ==
    remove_loop([st EXCEPT !.number_of_items = @ - 1], location)

\* the for loop of NodeStorage::get_location, from offset d on: the loop ends
\* at the first offset where the sum overflows on a checked build, the node
\* has no value, or the node holds the key; without one it runs out
get_location_ends(st, key, h, d) ==
    \/ u32_add(h, d).overflow /\ debug_assertions
    \/ key_ref(st.nodes[fast_mod(capacity(st), u32_add(h, d).sum)]) = None
    \/ key_eq(unwrap(key_ref(st.nodes[fast_mod(capacity(st), u32_add(h, d).sum)])), key)

get_location_at(st, key, h, d) ==
    LET sum == u32_add(h, d)
        location == fast_mod(capacity(st), sum.sum)
        node_key_ref == key_ref(st.nodes[location])
    IN  IF sum.overflow /\ debug_assertions
        THEN [location |-> None, fatal |-> AddOverflow]
        ELSE IF node_key_ref = None THEN [location |-> None, fatal |-> NoFatal]
        ELSE [location |-> Some(location), fatal |-> NoFatal]

get_location_from(st, key, h, d) ==
    LET offsets == d .. st.max_distance_to_initial_bucket
        first(e) == /\ get_location_ends(st, key, h, e)
                    /\ \A f \in d .. (e - 1) : ~get_location_ends(st, key, h, f)
    IN  IF \E e \in offsets : get_location_ends(st, key, h, e)
        THEN get_location_at(st, key, h, CHOOSE e \in offsets : first(e))
        ELSE [location |-> None, fatal |-> NoFatal]

\* get_location whose range of offsets is 0..bound instead of 0..=bound
get_location_exclusive(st, key, h) ==
    get_location_from([st EXCEPT !.max_distance_to_initial_bucket = @ - 1], key, h, 0)

\* NodeStorage::get_location
get_location(st, key, h) == get_location_from(st, key, h, 0)

\* the drain loop of NodeStorage::resized_to.  r is the new storage so far
\* (and the panic that ended the loop); the nodes lo .. hi-1 of the old storage
\* are taken in index order, the range split in halves to keep the evaluation
\* shallow.  reinserted(r) is what an insert_new of the loop leaves
RECURSIVE resized_to_from(_, _, _, _)
reinserted(r) == [storage |-> r.storage, fatal |-> r.fatal]

reinsert(new_node_storage, kvh) ==
    reinserted(insert_new(new_node_storage, kvh[1], kvh[2], kvh[3]))

\* one turn of the loop: if let Some((key, value, hash)) = node.take_key_value()
drain(old, r, i) ==
    IF take_key_value(old.nodes[i]).taken = None THEN r
    ELSE reinsert(r.storage, unwrap(take_key_value(old.nodes[i]).taken))

resized_to_from(old, r, lo, hi) ==
    IF r.fatal # NoFatal \/ hi <= lo THEN r
    ELSE IF hi = lo + 1 THEN drain(old, r, lo)
    ELSE resized_to_from(old, resized_to_from(old, r, lo, (lo + hi) \div 2),
                         (lo + hi) \div 2, hi)

\* resized_to that copies the nodes to the same indices of the larger table
\* instead of inserting them anew
resized_to_copied(st, new_size) ==
    IF ~is_power_of_two(new_size)
    THEN [storage |-> st, fatal |-> NotPowerOfTwo]
    ELSE [storage |->
            [st EXCEPT !.nodes = [i \in 0 .. (new_size - 1) |->
                                    IF i < capacity(st) THEN st.nodes[i] ELSE Node_new]],
          fatal |-> NoFatal]

\* resized_to without the power-of-two assert of with_size
resized_to_unchecked(st, new_size) ==
    resized_to_from(st, [storage |-> with_size(new_size), fatal |-> NoFatal],
                    0, capacity(st))

\* resized_to whose new table starts with the bound of the old one
resized_to_keeps_bound(st, new_size) ==
    IF ~is_power_of_two(new_size)
    THEN [storage |-> st, fatal |-> NotPowerOfTwo]
    ELSE resized_to_from(st,
            [storage |-> [with_size(new_size) EXCEPT
                             !.max_distance_to_initial_bucket =
                                 st.max_distance_to_initial_bucket],
             fatal |-> NoFatal],
            0, capacity(st))

\* NodeStorage::resized_to
resized_to(st, new_size) ==
    IF ~is_power_of_two(new_size)
    THEN [storage |-> st, fatal |-> NotPowerOfTwo]
    ELSE resized_to_from(st, [storage |-> with_size(new_size), fatal |-> NoFatal],
                         0, capacity(st))

\* NodeStorage::replace_at_location
replace_at_location(st, location, key, value) ==
    [st EXCEPT !.nodes[location] = replace(@, key, value).node]

(***************************************************************************)
(* HashMap.  Each operation is a function of the storage giving the        *)
(* storage afterwards, the returned value and the panic that ended it.     *)
(***************************************************************************)
\* resize without its assert: any other size is handed to resized_to
resize_unguarded(st, new_size) ==
    IF new_size = capacity(st) THEN [storage |-> st, fatal |-> NoFatal]
    ELSE resized_to(st, new_size)

\* HashMap::resize
resize(st, new_size) ==
    IF ~(new_size >= capacity(st)) THEN [storage |-> st, fatal |-> OnlyIncrease]
    ELSE IF new_size = capacity(st) THEN [storage |-> st, fatal |-> NoFatal]
    ELSE resized_to(st, new_size)

\* the growth test written on the products, without the truncating division
must_grow_untruncated(st) == len(st) * 100 >= capacity(st) * LoadPercent

\* the growth test of HashMap::insert
must_grow(st) == (capacity(st) * LoadPercent) \div 100 <= len(st)

\* the end of HashMap::insert: self.nodes.nodes[location].value_mut().unwrap();
\* the returned reference is given as the location it points to and the value
\* read through it
insert_failed(storage, msg) ==
    [storage |-> storage, location |-> None, ret |-> None, fatal |-> msg]

insert_done(storage, location) ==
    IF value_ref(storage.nodes[location]) = None
    THEN insert_failed(storage, UnwrapNone)
    ELSE [storage |-> storage, location |-> Some(location),
          ret |-> value_ref(storage.nodes[location]), fatal |-> NoFatal]

\* the branch of HashMap::insert for a key that get_location did not find,
\* once the storage is grown (or left as it is): r is what insert_new gave
insert_absent_done(r) ==
    IF r.fatal # NoFatal THEN insert_failed(r.storage, r.fatal)
    ELSE insert_done(r.storage, r.location)

insert_absent(grown, key, value, h) ==
    IF grown.fatal # NoFatal THEN insert_failed(grown.storage, grown.fatal)
    ELSE insert_absent_done(insert_new(grown.storage, key, value, h))

\* insert that never grows the table before insert_new
insert_found_never_grows(st, key, value, h, found) ==
    IF found.fatal # NoFatal THEN insert_failed(st, found.fatal)
    ELSE IF found.location # None
    THEN insert_done(replace_at_location(st, unwrap(found.location), key, value),
                     unwrap(found.location))
    ELSE insert_absent([storage |-> st, fatal |-> NoFatal], key, value, h)

\* insert that tests the load before it looks the key up
insert_found_grow_first(st, key, value, h, found) ==
    LET grown == IF must_grow(st) THEN resize(st, capacity(st) * 2)
                 ELSE [storage |-> st, fatal |-> NoFatal]
        again == get_location(grown.storage, key, h)
    IN  IF found.fatal # NoFatal THEN insert_failed(st, found.fatal)
        ELSE IF grown.fatal # NoFatal THEN insert_failed(st, grown.fatal)
        ELSE IF again.location # None
        THEN insert_done(replace_at_location(grown.storage, unwrap(again.location),
                                             key, value),
                         unwrap(again.location))
        ELSE insert_absent(grown, key, value, h)

\* HashMap::insert once get_location gave `found`
insert_found(st, key, value, h, found) ==
    IF found.fatal # NoFatal THEN insert_failed(st, found.fatal)
    ELSE IF found.location # None
    THEN insert_done(replace_at_location(st, unwrap(found.location), key, value),
                     unwrap(found.location))
    ELSE insert_absent(IF must_grow(st) THEN resize(st, capacity(st) * 2)
                       ELSE [storage |-> st, fatal |-> NoFatal],
                       key, value, h)

\* HashMap::insert
insert(st, key, value) ==
    insert_found(st, key, value, hash(key), get_location(st, key, hash(key)))

\* HashMap::get once get_location gave `found` (get_mut does the same lookup)
get_found(st, found) ==
    IF found.fatal # NoFatal THEN [ret |-> None, fatal |-> found.fatal]
    ELSE IF found.location = None THEN [ret |-> None, fatal |-> NoFatal]
    ELSE [ret |-> value_ref(st.nodes[unwrap(found.location)]), fatal |-> NoFatal]

\* HashMap::get
get(st, key) == get_found(st, get_location(st, key, hash(key)))

\* remove that takes slot 0 when the key is not found (unwrap_or_default)
remove_found_unchecked(st, found) ==
    IF found.fatal # NoFatal
    THEN [storage |-> st, value |-> None, key |-> None, fatal |-> found.fatal]
    ELSE remove_from_location(st, IF found.location = None THEN 0
                                  ELSE unwrap(found.location))

\* remove that shrinks the table to one node when it takes the last entry
remove_found_shrinks(st, found) ==
    IF found.fatal # NoFatal
    THEN [storage |-> st, value |-> None, key |-> None, fatal |-> found.fatal]
    ELSE IF found.location = None
    THEN [storage |-> st, value |-> None, key |-> None, fatal |-> NoFatal]
    ELSE IF len(st) = 1
    THEN [remove_from_location(st, unwrap(found.location))
             EXCEPT !.storage = with_size(1)]
    ELSE remove_from_location(st, unwrap(found.location))

\* HashMap::remove once get_location gave `found`
remove_found(st, found) ==
    IF found.fatal # NoFatal
    THEN [storage |-> st, value |-> None, key |-> None, fatal |-> found.fatal]
    ELSE IF found.location = None
    THEN [storage |-> st, value |-> None, key |-> None, fatal |-> NoFatal]
    ELSE remove_from_location(st, unwrap(found.location))

\* HashMap::remove
remove(st, key) == remove_found(st, get_location(st, key, hash(key)))

\* Iter::next that ends at the first node without a value
Iter_next_until_empty(st, at) ==
    IF at >= capacity(st) THEN [item |-> None, at |-> at]
    ELSE IF has_value(st.nodes[at])
    THEN [item |-> Some(<<unwrap(key_ref(st.nodes[at])), unwrap(value_ref(st.nodes[at]))>>),
          at |-> at + 1]
    ELSE [item |-> None, at |-> at + 1]

\* Iter::next on the iterator Iter { map, at }: the item returned and the
\* position the iterator is left at
RECURSIVE Iter_next(_, _)
Iter_next(st, at) ==
    IF at >= capacity(st) THEN [item |-> None, at |-> at]
    ELSE IF has_value(st.nodes[at])
    THEN [item |-> Some(<<unwrap(key_ref(st.nodes[at])), unwrap(value_ref(st.nodes[at]))>>),
          at |-> at + 1]
    ELSE Iter_next(st, at + 1)

\* IntoIterator for &HashMap: Iter { map: self, at: 0 }
into_iter(st) == [map |-> st, at |-> 0]

\* a for loop over the iterator from position `at`: the items up to the first
\* None; collected(st, r) goes on after next gave r
RECURSIVE Iter_collect(_, _)
collected(st, r) ==
    IF r.item = None THEN <<>> ELSE <<unwrap(r.item)>> \o Iter_collect(st, r.at)

Iter_collect(st, at) == collected(st, Iter_next(st, at))

\* Index::index: self.get(key).expect("no entry found for key")
NoEntryFound == "no entry found for key"

\* index that hands the result of get through (no expect)
index_found_lenient(r) == r

index_found(r) ==
    IF r.fatal # NoFatal THEN r
    ELSE IF r.ret = None THEN [ret |-> None, fatal |-> NoEntryFound]
    ELSE r

index(st, key) == index_found(get(st, key))

(***************************************************************************)
(* State                                                                   *)
(***************************************************************************)
\* no entry view is open
NoEntry == [kind |-> "None", key |-> None, location |-> None]

\* Entry::Occupied(OccupiedEntry { key, location, map })
OccupiedEntry(key, location) ==
    [kind |-> "Occupied", key |-> Some(key), location |-> Some(location)]

\* Entry::Empty(VacantEntry { key, map })
VacantEntry(key) == [kind |-> "Vacant", key |-> Some(key), location |-> None]

\* what a call did to the storage: the branch of the code it took
Effect(before, afterwards) ==
    IF capacity(afterwards) > capacity(before) THEN "grown"
    ELSE IF len(afterwards) > len(before) THEN "placed"
    ELSE IF len(afterwards) < len(before) THEN "removed"
    ELSE IF afterwards = before THEN "same"
    ELSE "replaced"

\* the last completed call that could change the map: its name and what it
\* did.  (HashMap::entry is recorded by the view it opens, and dropping a
\* view is no call.)
Op(name, effect) == [op |-> name, effect |-> effect]

\* the reference model of the test extreme_case: answers[key] is Some(value)
\* for the most recent insert of a key and None once it is removed
NoAnswers == [k \in Keys |-> None]

\* HashMap::with_capacity(cap), on a build with or without debug assertions
with_capacity(cap, h, debug) ==
    /\ hasher = h
    /\ debug_assertions = debug
    /\ entry = NoEntry
    /\ answers = NoAnswers
    /\ last = Op("with_capacity", "same")
    /\ IF is_power_of_two(cap)
       THEN nodes = with_size(cap) /\ fatal = NoFatal
       ELSE nodes = with_size(0) /\ fatal = NotPowerOfTwo

\* HashMap::new
new(h, debug) == with_capacity(DefaultCapacity, h, debug)

\* the enemy slot of a program that has no level loaded: the maps above are
\* exercised without any enemy
NoEnemy == [kind |-> "Empty", state |-> "Empty", start |-> 0, timer |-> 0,
            ret |-> "None"]

\* the drop registry of the drop tests, with no Droppable created
NoRegistry == [created |-> 0, are_dropped |-> <<>>, handed_back |-> <<>>]

\* keys and values are plain numbers: nothing is registered when they drop
Init ==
    /\ \E cap \in (0 .. MaxInitCapacity) \cup {DefaultCapacity} :
          with_capacity(cap, CollidingHasher, TRUE)
    /\ drop_registry = NoRegistry
    /\ hashed = <<>>
    /\ enemy = NoEnemy

\* the program goes on: no panic so far
Running == fatal = NoFatal

\* a panic aborts the program: nothing of the map is left to look at
after(storage, msg) == IF msg = NoFatal THEN storage ELSE with_size(0)

\* the map is not borrowed by an entry view
Free == Running /\ entry.kind = "None"

(***************************************************************************)
(* Actions: the calls of the public interface                              *)
(***************************************************************************)
\* the state after a call that gave the storage st and ended with the panic
\* msg (NoFatal: none)
Returned(name, st, msg) ==
    /\ nodes' = after(st, msg)
    /\ fatal' = msg
    /\ last' = Op(name, Effect(nodes, st))

\* the reference model after the call: key is now mapped to `answer`
Answered(key, answer, msg) ==
    answers' = IF msg = NoFatal THEN [answers EXCEPT ![key] = answer] ELSE answers

Inserted(name, key, value, r) ==
    /\ Returned(name, r.storage, r.fatal)
    /\ Answered(key, Some(value), r.fatal)

Insert(key, value) ==
    /\ Free
    /\ must_grow(nodes) => capacity(nodes) * 2 <= MaxCapacity
    /\ Inserted("insert", key, value, insert(nodes, key, value))
    /\ UNCHANGED <<drop_registry, hashed, hasher, debug_assertions, enemy, entry>>

Removed(name, key, r) ==
    /\ Returned(name, r.storage, r.fatal)
    /\ Answered(key, None, r.fatal)

Remove(key) ==
    /\ Free
    /\ Removed("remove", key, remove(nodes, key))
    /\ UNCHANGED <<drop_registry, hashed, hasher, debug_assertions, enemy, entry>>

Resized(r) == Returned("resize", r.storage, r.fatal)

Resize(new_size) ==
    /\ Free
    /\ Resized(resize(nodes, new_size))
    /\ UNCHANGED <<drop_registry, hashed, hasher, debug_assertions, enemy, entry, answers>>

\* entry that gives a Vacant view whatever get_location found
entry_found_always_vacant(key, found) ==
    [entry |-> VacantEntry(key), fatal |-> found.fatal]

\* HashMap::entry once get_location gave `found`: the view the key resolves to
entry_found(key, found) ==
    [entry |-> IF found.location # None
               THEN OccupiedEntry(key, unwrap(found.location))
               ELSE VacantEntry(key),
     fatal |-> found.fatal]

\* HashMap::entry
entry_of(st, key) == entry_found(key, get_location(st, key, hash(key)))

Entered(r) ==
    /\ entry' = IF r.fatal = NoFatal THEN r.entry ELSE NoEntry
    /\ nodes' = after(nodes, r.fatal)
    /\ fatal' = r.fatal

Entry(key) ==
    /\ Free
    /\ Entered(entry_of(nodes, key))
    /\ UNCHANGED <<drop_registry, hashed, hasher, debug_assertions, enemy, answers, last>>

\* OccupiedEntry::get: self.map.nodes.nodes[self.location].value_ref().unwrap()
OccupiedEntry_get(st, location) ==
    [ret |-> value_ref(st.nodes[location]),
     fatal |-> IF value_ref(st.nodes[location]) = None THEN UnwrapNone ELSE NoFatal]

\* OccupiedEntry::insert that hands back the value it was given
OccupiedEntry_insert_at_returns_new(st, location, value) ==
    [storage |-> [st EXCEPT !.nodes[location] = replace_value(@, value).node],
     ret |-> Some(value),
     fatal |-> NoFatal]

\* OccupiedEntry::insert: self.map.nodes.nodes[self.location].replace_value(value)
OccupiedEntry_insert_at(st, location, value) ==
    IF has_value(st.nodes[location])
    THEN [storage |-> [st EXCEPT !.nodes[location] = replace_value(@, value).node],
          ret |-> Some(replace_value(st.nodes[location], value).old),
          fatal |-> NoFatal]
    ELSE [storage |-> st, ret |-> None,
          fatal |-> "Cannot replace an unininitalised node"]

\* OccupiedEntry::insert replaces the value and gives back the old one; the
\* view stays open (it takes &mut self)
OccupiedEntry_insert(value) ==
    /\ Running
    /\ entry.kind = "Occupied"
    /\ Inserted("OccupiedEntry::insert", unwrap(entry.key), value,
                OccupiedEntry_insert_at(nodes, unwrap(entry.location), value))
    /\ entry' = IF fatal' = NoFatal THEN entry ELSE NoEntry
    /\ UNCHANGED <<drop_registry, hashed, hasher, debug_assertions, enemy>>

\* OccupiedEntry::remove (remove_entry is the same call, and also hands back
\* the key of the view)
OccupiedEntry_remove ==
    /\ Running
    /\ entry.kind = "Occupied"
    /\ Removed("OccupiedEntry::remove", unwrap(entry.key),
               remove_from_location(nodes, unwrap(entry.location)))
    /\ entry' = NoEntry
    /\ UNCHANGED <<drop_registry, hashed, hasher, debug_assertions, enemy>>

\* VacantEntry::insert: self.map.insert(self.key, value)
VacantEntry_insert(value) ==
    /\ Running
    /\ entry.kind = "Vacant"
    /\ must_grow(nodes) => capacity(nodes) * 2 <= MaxCapacity
    /\ Inserted("VacantEntry::insert", unwrap(entry.key), value,
                insert(nodes, unwrap(entry.key), value))
    /\ entry' = NoEntry
    /\ UNCHANGED <<drop_registry, hashed, hasher, debug_assertions, enemy>>

\* OccupiedEntry::into_mut: the reference to the value of the view's slot
into_mut(st, location) ==
    [storage |-> st,
     ret |-> value_ref(st.nodes[location]),
     fatal |-> IF value_ref(st.nodes[location]) = None THEN UnwrapNone ELSE NoFatal]

\* Entry::or_insert: into_mut of an Occupied view, insert of a Vacant one
Entry_or_insert(value) ==
    /\ Running
    /\ \/ /\ entry.kind = "Occupied"
          /\ Returned("Entry::or_insert", nodes,
                      into_mut(nodes, unwrap(entry.location)).fatal)
          /\ UNCHANGED answers
       \/ /\ entry.kind = "Vacant"
          /\ must_grow(nodes) => capacity(nodes) * 2 <= MaxCapacity
          /\ Inserted("Entry::or_insert", unwrap(entry.key), value,
                      insert(nodes, unwrap(entry.key), value))
    /\ entry' = NoEntry
    /\ UNCHANGED <<drop_registry, hashed, hasher, debug_assertions, enemy>>

\* V: Default.  Default::default() is one fixed value of the value type
Default_default == 1

\* the closures handed to the entry helpers: F: FnOnce() -> V is the value it
\* returns, F: FnOnce(&K) -> V and F: FnOnce(&mut V) are tables
Closures == Values
KeyClosures == {[k \in Keys |-> (k % NumValues) + 1], [k \in Keys |-> NumValues]}
Modifiers == {[v \in Values |-> (v % NumValues) + 1], [v \in Values |-> 1]}

\* what a helper returns, with the number of times it called its closure
called(r, calls) ==
    [storage |-> r.storage, ret |-> r.ret, fatal |-> r.fatal, calls |-> calls]

\* or_insert that inserts the value for an Occupied view too
or_insert_always_inserts(st, e, value) == insert(st, unwrap(e.key), value)

\* Entry::or_insert
or_insert(st, e, value) ==
    IF e.kind = "Occupied" THEN into_mut(st, unwrap(e.location))
    ELSE insert(st, unwrap(e.key), value)

\* Entry::or_insert_with
or_insert_with(st, e, f) ==
    IF e.kind = "Occupied" THEN called(into_mut(st, unwrap(e.location)), 0)
    ELSE called(insert(st, unwrap(e.key), f), 1)

\* Entry::or_insert_with_key
or_insert_with_key(st, e, f) ==
    IF e.kind = "Occupied" THEN called(into_mut(st, unwrap(e.location)), 0)
    ELSE called(insert(st, unwrap(e.key), f[unwrap(e.key)]), 1)

\* Entry::or_default
or_default(st, e) ==
    IF e.kind = "Occupied" THEN into_mut(st, unwrap(e.location))
    ELSE insert(st, unwrap(e.key), Default_default)

\* Entry::and_modify: f(e.get_mut()) on an Occupied view; the view is returned
and_modify(st, e, f) ==
    IF e.kind = "Occupied"
    THEN IF value_ref(st.nodes[unwrap(e.location)]) = None
         THEN [storage |-> st, entry |-> e, fatal |-> UnwrapNone, calls |-> 0]
         ELSE [storage |-> [st EXCEPT !.nodes[unwrap(e.location)].value = f[@]],
               entry |-> e, fatal |-> NoFatal, calls |-> 1]
    ELSE [storage |-> st, entry |-> e, fatal |-> NoFatal, calls |-> 0]

\* a get-or-initialize helper on the open view: r is what it gave, value the
\* value it would insert
Entry_or(name, value, r) ==
    /\ Running
    /\ entry.kind # "None"
    /\ entry.kind = "Vacant" /\ must_grow(nodes) => capacity(nodes) * 2 <= MaxCapacity
    /\ Returned(name, r.storage, r.fatal)
    /\ IF entry.kind = "Vacant" THEN Answered(unwrap(entry.key), Some(value), r.fatal)
       ELSE UNCHANGED answers
    /\ entry' = NoEntry
    /\ UNCHANGED <<drop_registry, hashed, hasher, debug_assertions, enemy>>

Entry_or_insert_with(f) ==
    /\ entry.kind # "None"
    /\ Entry_or("Entry::or_insert_with", f, or_insert_with(nodes, entry, f))

Entry_or_insert_with_key(f) ==
    /\ entry.kind # "None"
    /\ Entry_or("Entry::or_insert_with_key", f[unwrap(entry.key)],
                or_insert_with_key(nodes, entry, f))

Entry_or_default ==
    /\ entry.kind # "None"
    /\ Entry_or("Entry::or_default", Default_default, or_default(nodes, entry))

Modified(r) ==
    /\ Returned("Entry::and_modify", r.storage, r.fatal)
    /\ answers' = IF r.fatal = NoFatal /\ r.calls = 1
                  THEN [answers EXCEPT ![unwrap(entry.key)] =
                           value_ref(r.storage.nodes[unwrap(entry.location)])]
                  ELSE answers
    /\ entry' = IF r.fatal = NoFatal THEN r.entry ELSE NoEntry

Entry_and_modify(f) ==
    /\ Running
    /\ entry.kind # "None"
    /\ Modified(and_modify(nodes, entry, f))
    /\ UNCHANGED <<drop_registry, hashed, hasher, debug_assertions, enemy>>

\* map[key]: a read through &self; a missing key is the panic of expect
Indexed(r) ==
    /\ nodes' = after(nodes, r.fatal)
    /\ fatal' = r.fatal
    /\ last' = IF r.fatal = NoFatal THEN last ELSE Op("index", "same")

Index(key) ==
    /\ Free
    /\ Indexed(index(nodes, key))
    /\ UNCHANGED <<drop_registry, hashed, hasher, debug_assertions, enemy, entry, answers>>

\* the view goes out of scope unused and the borrow of the map ends
Entry_drop ==
    /\ Running
    /\ entry.kind # "None"
    /\ entry' = NoEntry
    /\ UNCHANGED <<drop_registry, hashed, nodes, hasher, debug_assertions, enemy, answers, fatal, last>>

Next ==
    \/ \E key \in Keys, value \in Values : Insert(key, value)
    \/ \E key \in Keys : Remove(key)
    \/ \E new_size \in 0 .. MaxCapacity : Resize(new_size)
    \/ \E key \in Keys : Entry(key)
    \/ \E value \in Values : OccupiedEntry_insert(value)
    \/ OccupiedEntry_remove
    \/ \E value \in Values : VacantEntry_insert(value)
    \/ \E value \in Values : Entry_or_insert(value)
    \/ \E f \in Closures : Entry_or_insert_with(f)
    \/ \E f \in KeyClosures : Entry_or_insert_with_key(f)
    \/ Entry_or_default
    \/ \E f \in Modifiers : Entry_and_modify(f)
    \/ Entry_drop
    \/ \E key \in Keys : Index(key)

Spec == Init /\ [][Next]_vars

(***************************************************************************)
(* The drop tests.  Keys and values are Droppables made by a DropRegistry, *)
(* which counts the drops of each; the hasher records the keys it is       *)
(* invoked on.  The payload of a map is owned by it: what an operation     *)
(* takes out of a node is dropped where the code lets it go out of scope,  *)
(* or handed back to the caller.                                           *)
(***************************************************************************)
\* Droppables created in one run
MaxDroppables == 4

\* a clone of the Droppable with the id `id`, made as the n-th Droppable
new_key(id, n) == id + NumIds * n

KeyInstances == {new_key(id, n) : id \in Keys, n \in 0 .. (MaxDroppables + 1)}

\* impl Hash for Droppable: hasher.write_usize(self.id)
DroppableHasher == [key \in KeyInstances |-> CollidingHasher[key_id(key)]]

\* the entries of the registry: a key and a value are counted apart
Key(key) == <<"key", key>>
Value(value) == <<"value", value>>

\* DropRegistry::new_droppable: self.are_dropped.borrow_mut().push(0)
new_droppable(reg, payload) ==
    [created |-> reg.created + 1,
     are_dropped |-> reg.are_dropped @@ (payload :> 0),
     handed_back |-> reg.handed_back @@ (payload :> 0)]

Count(seq, payload) == Cardinality({i \in DOMAIN seq : seq[i] = payload})

\* DropRegistry::dropped, for each payload of `seq`: are_dropped[id] += 1
dropped(reg, seq) ==
    [reg EXCEPT !.are_dropped = [p \in DOMAIN @ |-> @[p] + Count(seq, p)]]

\* the payloads of `seq` are moved to the caller
handed(reg, seq) ==
    [reg EXCEPT !.handed_back = [p \in DOMAIN @ |-> @[p] + Count(seq, p)]]

\* impl Drop for Node
Node_drop(node) ==
    IF has_value(node) THEN <<Key(node.key), Value(node.value)>> ELSE <<>>

\* the drop of a Vec<Node>, from node i on
RECURSIVE Vec_drop(_, _)
Vec_drop(st, i) ==
    IF i >= capacity(st) THEN <<>> ELSE Node_drop(st.nodes[i]) \o Vec_drop(st, i + 1)

\* resized_to: each drained node is dropped at the end of its turn of the
\* loop, after take_key_value
RECURSIVE drained_dropped(_, _)
drained_dropped(old, i) ==
    IF i >= capacity(old) THEN <<>>
    ELSE Node_drop(take_key_value(old.nodes[i]).node) \o drained_dropped(old, i + 1)

\* HashMap::resize: what the growth drops
resize_dropped(st, new_size) ==
    IF new_size > capacity(st) THEN drained_dropped(st, 0) ELSE <<>>

\* replace_at_location: self.nodes[location].replace(key, value).1 drops the
\* key of the pair and returns the value, which HashMap::insert drops
replace_at_location_dropped(old) == <<Key(old[1]), Value(old[2])>>

\* HashMap::insert once get_location gave `found`: what it drops
insert_dropped(st, key, value, found) ==
    IF found.location # None
    THEN replace_at_location_dropped(replace(st.nodes[unwrap(found.location)],
                                             key, value).old)
    ELSE IF must_grow(st) THEN resize_dropped(st, capacity(st) * 2)
    ELSE <<>>

\* remove_from_location: take_key_value().unwrap().1 drops the key and returns
\* the value
remove_dropped(r) == IF r.key = None THEN <<>> ELSE <<Key(unwrap(r.key))>>

remove_returned(r) == IF r.value = None THEN <<>> ELSE <<Value(unwrap(r.value))>>

\* the map of a drop test, with whatever capacity
DroppableInit ==
    /\ \E cap \in 0 .. MaxInitCapacity : with_capacity(cap, DroppableHasher, TRUE)
    /\ drop_registry = NoRegistry
    /\ hashed = <<>>
    /\ enemy = NoEnemy

\* the map has not been dropped (and no panic has ended the test)
Alive == Running /\ last.op # "drop"

\* the state after a call on the map of a drop test: the storage and the
\* panic it gave, the registry and the view left open.  `hashed` is the
\* record of a get-or-initialise: the keys the hasher was invoked on by the
\* last entry(key) and by the calls on its view; any other call clears it
Harnessed(name, st, msg, reg, hs, view) ==
    /\ Returned(name, st, msg)
    /\ drop_registry' = reg
    /\ hashed' = hs
    /\ entry' = IF msg = NoFatal THEN view ELSE NoEntry
    /\ UNCHANGED <<hasher, debug_assertions, enemy, answers>>

\* map.insert(key, value) with a new Droppable key (a clone of `id`) and a new
\* Droppable value
Droppable_inserted(key, value, found, r) ==
    Harnessed("insert", r.storage, r.fatal,
              dropped(new_droppable(new_droppable(drop_registry, Key(key)), Value(value)),
                      insert_dropped(nodes, key, value, found)),
              <<>>, NoEntry)

Droppable_insert(id) ==
    /\ Alive /\ Free
    /\ drop_registry.created + 2 <= MaxDroppables
    /\ must_grow(nodes) => capacity(nodes) * 2 <= MaxCapacity
    /\ Droppable_inserted(new_key(id, drop_registry.created + 1),
                          drop_registry.created + 2,
                          get_location(nodes, new_key(id, drop_registry.created + 1),
                                       hash(id)),
                          insert(nodes, new_key(id, drop_registry.created + 1),
                                 drop_registry.created + 2))

\* map.remove(&key): the key is borrowed, the value comes back to the caller
Droppable_removed(r) ==
    Harnessed("remove", r.storage, r.fatal,
              handed(dropped(drop_registry, remove_dropped(r)), remove_returned(r)),
              <<>>, NoEntry)

Droppable_remove(id) ==
    /\ Alive /\ Free
    /\ Droppable_removed(remove(nodes, id))

\* map.resize(2 * capacity)
Droppable_resized(new_size, r) ==
    Harnessed("resize", r.storage, r.fatal,
              dropped(drop_registry, resize_dropped(nodes, new_size)), <<>>, NoEntry)

Droppable_resize ==
    /\ Alive /\ Free
    /\ capacity(nodes) * 2 <= 2 * MaxInitCapacity
    /\ Droppable_resized(capacity(nodes) * 2, resize(nodes, capacity(nodes) * 2))

\* map.entry(key) with a new Droppable key: the view owns the key
Droppable_entered(key, r) ==
    /\ Entered(r)
    /\ drop_registry' = new_droppable(drop_registry, Key(key))
    /\ hashed' = <<key>>
    /\ UNCHANGED <<hasher, debug_assertions, enemy, answers, last>>

Droppable_entry(id) ==
    /\ Alive /\ Free
    /\ drop_registry.created + 1 <= MaxDroppables
    /\ Droppable_entered(new_key(id, drop_registry.created + 1),
                         entry_of(nodes, new_key(id, drop_registry.created + 1)))

\* OccupiedEntry::insert with a new Droppable value: the old value comes back
Droppable_replaced(value, r) ==
    Harnessed("OccupiedEntry::insert", r.storage, r.fatal,
              handed(new_droppable(drop_registry, Value(value)), <<Value(unwrap(r.ret))>>),
              hashed, entry)

Droppable_OccupiedEntry_insert ==
    /\ Alive
    /\ entry.kind = "Occupied"
    /\ drop_registry.created + 1 <= MaxDroppables
    /\ Droppable_replaced(drop_registry.created + 1,
                          OccupiedEntry_insert_at(nodes, unwrap(entry.location),
                                                  drop_registry.created + 1))

\* OccupiedEntry::remove: the stored key is dropped by remove_from_location,
\* the key of the view with the view, and the value comes back
Droppable_OccupiedEntry_removed(r) ==
    Harnessed("OccupiedEntry::remove", r.storage, r.fatal,
              handed(dropped(drop_registry, remove_dropped(r) \o <<Key(unwrap(entry.key))>>),
                     remove_returned(r)),
              hashed, NoEntry)

Droppable_OccupiedEntry_remove ==
    /\ Alive
    /\ entry.kind = "Occupied"
    /\ Droppable_OccupiedEntry_removed(remove_from_location(nodes, unwrap(entry.location)))

\* VacantEntry::insert with a new Droppable value: self.map.insert(self.key,
\* value), which hashes the key
Droppable_VacantEntry_inserted(key, value, found, r) ==
    Harnessed("VacantEntry::insert", r.storage, r.fatal,
              dropped(new_droppable(drop_registry, Value(value)),
                      insert_dropped(nodes, key, value, found)),
              hashed \o <<key>>, NoEntry)

Droppable_VacantEntry_insert ==
    /\ Alive
    /\ entry.kind = "Vacant"
    /\ drop_registry.created + 1 <= MaxDroppables
    /\ must_grow(nodes) => capacity(nodes) * 2 <= MaxCapacity
    /\ Droppable_VacantEntry_inserted(
          unwrap(entry.key), drop_registry.created + 1,
          get_location(nodes, unwrap(entry.key), hash(unwrap(entry.key))),
          insert(nodes, unwrap(entry.key), drop_registry.created + 1))

\* the view goes out of scope (unused, or through into_mut): its key drops
Droppable_Entry_drop ==
    /\ Alive
    /\ entry.kind # "None"
    /\ drop_registry' = dropped(drop_registry, <<Key(unwrap(entry.key))>>)
    /\ entry' = NoEntry
    /\ UNCHANGED <<nodes, hasher, debug_assertions, enemy, answers, fatal, last, hashed>>

\* the map goes out of scope: its Vec<Node> drops every node
Droppable_map_drop ==
    /\ Alive /\ Free
    /\ nodes' = with_size(0)
    /\ last' = Op("drop", Effect(nodes, with_size(0)))
    /\ drop_registry' = dropped(drop_registry, Vec_drop(nodes, 0))
    /\ hashed' = <<>>
    /\ UNCHANGED <<hasher, debug_assertions, enemy, answers, fatal, entry>>

DroppableNext ==
    \/ \E id \in Keys : Droppable_insert(id)
    \/ \E id \in Keys : Droppable_remove(id)
    \/ Droppable_resize
    \/ \E id \in Keys : Droppable_entry(id)
    \/ Droppable_OccupiedEntry_insert
    \/ Droppable_OccupiedEntry_remove
    \/ Droppable_VacantEntry_insert
    \/ Droppable_Entry_drop
    \/ Droppable_map_drop

DroppableSpec == DroppableInit /\ [][DroppableNext]_vars

(***************************************************************************)
(* The test can_insert_more_than_initial_capacity: 65 keys are inserted in *)
(* turn into HashMap::new(), under one of several hashers and on a build   *)
(* with or without debug assertions (overflow checks).                     *)
(***************************************************************************)
SequentialKeys == 0 .. (NumIds - 1)

\* every key has its own hash: no collision until the index wraps
IdentityHasher == [k \in SequentialKeys |-> as_HashType(k)]

\* every key has the same hash: one probe run holds them all
ConstantHasher == [k \in SequentialKeys |-> as_HashType(7)]

\* the colliding hashes of the table, repeated
TableHasher == [k \in SequentialKeys |-> HasherTable[(k % Len(HasherTable)) + 1]]

\* every key has the hash u32::MAX
TopHasher == [k \in SequentialKeys |-> <<Half - 1, Half - 1>>]

SequentialHashers == {IdentityHasher, ConstantHasher, TableHasher, TopHasher}

\* let mut map = HashMap::new(); `answers` holds the pairs inserted so far
SequentialInit ==
    /\ hasher \in SequentialHashers
    /\ debug_assertions \in BOOLEAN
    /\ nodes = with_size(DefaultCapacity)
    /\ fatal = NoFatal
    /\ entry = NoEntry
    /\ answers = <<>>
    /\ last = Op("with_capacity", "same")
    /\ drop_registry = NoRegistry
    /\ hashed = <<>>
    /\ enemy = NoEnemy

\* the loop variable i of for i in 0..65
Sequential_i == Cardinality(DOMAIN answers)

\* map.insert(i, i % 4)
Sequential_inserted(i, r) ==
    /\ Returned("insert", r.storage, r.fatal)
    /\ answers' = IF r.fatal = NoFatal THEN [k \in 0 .. i |-> Some(k % 4)] ELSE answers
    /\ UNCHANGED <<hasher, debug_assertions, enemy, entry, drop_registry, hashed>>

Sequential_insert ==
    /\ Free
    /\ Sequential_i < NumIds
    /\ Sequential_inserted(Sequential_i, insert(nodes, Sequential_i, Sequential_i % 4))

SequentialNext == Sequential_insert

SequentialSpec == SequentialInit /\ [][SequentialNext]_vars

(***************************************************************************)
(* The enemies of the example game (the-hat-chooses-the-wizard/enemies.rs) *)
(*                                                                         *)
(* enemy is one slot of the level's enemy list: its kind, the state of its *)
(* state machine with the start frame the state carries, the frame timer   *)
(* the next update is called with, and what the last update returned.      *)
(* Sprites, velocity and sound effects have no part in the state machine   *)
(* and are left out.                                                       *)
(***************************************************************************)
\* the last frame of a run
MaxTimer == 300

\* HatState: update only ever compares it with HatState::WizardTowards
HatStates == {"WizardTowards", "OnHead"}

\* (position - player_pos).magnitude_squared(): on and next to each of the
\* thresholds 10 * 10, 48 * 48 and 64 * 64 the updates compare it with
MagnitudesSquared == {0, 10 * 10, 48 * 48, 64 * 64}

\* the frame timer at which a level starts
FirstFrames == 0 .. 1

\* an animation whose frames last 8 frames of the game each
animation_offset_by_eight(timer, start_frame) ==
    LET i == timer - start_frame
    IN  IF i >= 0 THEN i \div 8 ELSE (Half \div 8) * Half + (i \div 8)

\* (timer - start_frame) as usize / 4, the animation frame of a state: on
\* the 32-bit target a negative i32 i is the usize i + 2^32, a quarter of
\* which is 2^30 + i / 4 rounded down
animation_offset(timer, start_frame) ==
    LET i == timer - start_frame
    IN  IF i >= 0 THEN i \div 4 ELSE (Half \div 4) * Half + (i \div 4)

\* what Slime::update and Snail::update leave: the state of the enemy and
\* the UpdateState returned
Updated(state, start, ret) == [state |-> state, start |-> start, ret |-> ret]

\* if player_has_collided { ... }: the end of every living state.  s is the
\* state the update has set so far
collided(s, magnitude_squared, hat_state, dying, timer) ==
    IF magnitude_squared < 10 * 10
    THEN IF hat_state = "WizardTowards"
         THEN Updated(dying, timer, "Nothing")
         ELSE Updated(s.state, s.start, "KillPlayer")
    ELSE Updated(s.state, s.start, "Nothing")

\* Slime::new: SlimeState::Idle carries no frame
Slime_new == [kind |-> "Slime", state |-> "Idle", start |-> 0]

\* Slime::update
Slime_update(self, magnitude_squared, hat_state, timer) ==
    CASE self.state = "Idle" ->
           collided(IF magnitude_squared < 64 * 64
                    THEN Updated("Jumping", timer, "Nothing")
                    ELSE Updated("Idle", 0, "Nothing"),
                    magnitude_squared, hat_state, "Dying", timer)
      [] self.state = "Jumping" ->
           collided(IF animation_offset(timer, self.start) >= 7
                    THEN Updated("Idle", 0, "Nothing")
                    ELSE Updated("Jumping", self.start, "Nothing"),
                    magnitude_squared, hat_state, "Dying", timer)
      [] self.state = "Dying" ->
           IF animation_offset(timer, self.start) >= 4
           THEN Updated("Dying", self.start, "Remove")
           ELSE Updated("Dying", self.start, "Nothing")

\* Snail::new
Snail_new == [kind |-> "Snail", state |-> "Idle", start |-> 0]

\* 5 - (timer - time) as usize / 4, a usize: below 0 the subtraction
\* overflows, and the result stands for the wrapped one, 2^32 more
retreating_offset(timer, time) == 5 - animation_offset(timer, time)

\* Snail::update.  Where overflow is checked, the overflowing subtraction of
\* the retreat panics
Snail_update(self, magnitude_squared, hat_state, timer, overflow_checks) ==
    CASE self.state = "Idle" ->
           collided(IF /\ self.start = 0 \/ timer - self.start > 120
                       /\ magnitude_squared < 48 * 48
                    THEN Updated("Emerging", timer, "Nothing")
                    ELSE Updated("Idle", self.start, "Nothing"),
                    magnitude_squared, hat_state, "Death", timer)
      [] self.state = "Emerging" ->
           collided(IF animation_offset(timer, self.start) >= 5
                    THEN Updated("Moving", timer, "Nothing")
                    ELSE Updated("Emerging", self.start, "Nothing"),
                    magnitude_squared, hat_state, "Death", timer)
      [] self.state = "Moving" ->
           collided(IF timer - self.start > 240
                    THEN Updated("Retreating", timer, "Nothing")
                    ELSE Updated("Moving", self.start, "Nothing"),
                    magnitude_squared, hat_state, "Death", timer)
      [] self.state = "Retreating" ->
           IF retreating_offset(timer, self.start) < 0 /\ overflow_checks
           THEN Updated("Retreating", self.start, "Overflow")
           ELSE collided(IF retreating_offset(timer, self.start) = 0
                         THEN Updated("Idle", timer, "Nothing")
                         ELSE Updated("Retreating", self.start, "Nothing"),
                         magnitude_squared, hat_state, "Death", timer)
      [] self.state = "Death" ->
           IF animation_offset(timer, self.start) < 5 + 7
           THEN Updated("Death", self.start, "Nothing")
           ELSE Updated("Death", self.start, "Remove")

\* Enemy::Empty, the default
Enemy_Empty == [kind |-> "Empty", state |-> "Empty", start |-> 0]

\* Enemy::update: the enemy after the call and the EnemyUpdateState returned
\* ("Overflow" where the call panicked instead)
Enemy_update(self, magnitude_squared, hat_state, timer, overflow_checks) ==
    LET update_state ==
            CASE self.kind = "Slime" ->
                   Slime_update(self, magnitude_squared, hat_state, timer)
              [] self.kind = "Snail" ->
                   Snail_update(self, magnitude_squared, hat_state, timer,
                                overflow_checks)
              [] self.kind = "Empty" -> Updated("Empty", 0, "Nothing")
    IN  CASE update_state.ret = "Remove" ->
               [kind |-> "Empty", state |-> "Empty", start |-> 0,
                ret |-> "None"]
          [] update_state.ret \in {"KillPlayer", "Overflow"} ->
               [kind |-> self.kind, state |-> update_state.state,
                start |-> update_state.start, ret |-> update_state.ret]
          [] update_state.ret = "Nothing" ->
               [kind |-> self.kind, state |-> update_state.state,
                start |-> update_state.start, ret |-> "None"]

\* a level starts with a slime, a snail or an empty slot; the map is left as
\* it was created
EnemyInit ==
    /\ \E debug \in BOOLEAN : new(CollidingHasher, debug)
    /\ drop_registry = NoRegistry
    /\ hashed = <<>>
    /\ \E e \in {Slime_new, Snail_new, Enemy_Empty}, timer \in FirstFrames :
          enemy = [kind |-> e.kind, state |-> e.state, start |-> e.start,
                   timer |-> timer, ret |-> "None"]

\* one frame of the game: the enemy is updated with the frame timer, and the
\* timer advances by 1
Frame(magnitude_squared, hat_state) ==
    /\ Running
    /\ enemy.timer < MaxTimer
    /\ LET e == Enemy_update(enemy, magnitude_squared, hat_state, enemy.timer,
                             debug_assertions)
       IN  /\ enemy' = [kind |-> e.kind, state |-> e.state, start |-> e.start,
                        timer |-> enemy.timer + 1, ret |-> e.ret]
           /\ fatal' = IF e.ret = "Overflow"
                       THEN "attempt to subtract with overflow" ELSE NoFatal
    /\ UNCHANGED <<nodes, hasher, debug_assertions, entry, answers, last,
                   drop_registry, hashed>>

EnemyNext ==
    \E magnitude_squared \in MagnitudesSquared, hat_state \in HatStates :
        Frame(magnitude_squared, hat_state)

EnemySpec == EnemyInit /\ [][EnemyNext]_vars

(***************************************************************************)
(* Properties                                                              *)
(***************************************************************************)
Occupied(st) == {i \in DOMAIN st.nodes : has_value(st.nodes[i])}

Present(st, key) == get(st, key).ret # None

\* h mod m for a 32-bit word h, by the remainders of its halves
u32_mod(h, m) == ((h[1] % m) * (Half % m) + (h[2] % m)) % m

\* C1: after every step of any sequence of insert and remove calls (growth
\* and colliding hashes included), get(k) is what the reference model
\* answers[k] holds, for every key: the value of the most recent insert, and
\* None for a key removed since or never inserted.
C1_GetMatchesReference ==
    Running => \A k \in Keys : get(nodes, k) = [ret |-> answers[k], fatal |-> NoFatal]

\* a removal in a table of four slots in which keys collided, that left a key
\* whose value was overwritten by a later insert
C1_Witness ==
    /\ Running
    /\ last = Op("remove", "removed")
    /\ capacity(nodes) = 4
    /\ nodes.max_distance_to_initial_bucket >= 1
    /\ \E k \in Keys : answers[k] = Some(2) /\ \E j \in Keys \ {k} : answers[j] = Some(1)

\* C2: len() is the number of distinct keys stored (inserted and not removed
\* since), which is the number of occupied slots; no key is stored twice; and
\* inserting a key that is present leaves len() as it is.
C2_LenCountsKeys ==
    Running =>
        /\ len(nodes) = Cardinality({k \in Keys : answers[k] # None})
        /\ len(nodes) = Cardinality(Occupied(nodes))
        /\ \A i, j \in Occupied(nodes) :
              nodes.nodes[i].key = nodes.nodes[j].key => i = j
        /\ \A k \in Keys, v \in Values :
              Present(nodes, k) => len(insert(nodes, k, v).storage) = len(nodes)

\* every key is stored, and the last call took one out and another put it back
C2_Witness ==
    /\ Running
    /\ len(nodes) = NumKeys
    /\ last = Op("Entry::or_insert", "placed")

\* C3: every occupied slot i with displacement d and cached hash h satisfies
\* (i - d) mod capacity = h mod capacity, and h is the hash of the stored key.
C3_DisplacementInvariant ==
    Running =>
        \A i \in Occupied(nodes) :
            LET node == nodes.nodes[i]
            IN  /\ (i - get_distance(node)) % capacity(nodes)
                      = u32_mod(node.hash, capacity(nodes))
                /\ node.hash = hash(node.key)

\* after a removal, an entry lies across the wrap-around of the table: its
\* displacement is larger than its index
C3_Witness ==
    /\ Running
    /\ last = Op("remove", "removed")
    /\ \E i \in Occupied(nodes) : get_distance(nodes.nodes[i]) > i

\* the powers of two above the capacity that a resize can ask for, the double
\* of the capacity (the growth of insert) among them
GrowthTargets(st) ==
    {n \in (capacity(st) + 1) .. (2 * MaxCapacity) : is_power_of_two(n)}

GrowthPreserves(st, new_size, r) ==
    /\ r.fatal = NoFatal
    /\ capacity(r.storage) = new_size
    /\ len(r.storage) = len(st)
    /\ \A k \in Keys : get(r.storage, k) = get(st, k)

\* C4: growing a reachable map (a resize to a larger power of two, or the
\* doubling that insert performs) keeps every stored key with its value,
\* makes no other key present and leaves len() as it is.
C4_GrowthPreservesContents ==
    Running =>
        /\ \A n \in GrowthTargets(nodes) : GrowthPreserves(nodes, n, resize(nodes, n))
        /\ (2 * capacity(nodes)) \in GrowthTargets(nodes)

\* a resize has grown a table that holds every key, two of them with values
\* that differ
C4_Witness ==
    /\ Running
    /\ last = Op("resize", "grown")
    /\ len(nodes) = NumKeys
    /\ answers[0] # answers[1]

\* the capacity after insert(key, value) of an absent key
CapacityAfterInsert(key, value) == capacity(insert(nodes, key, value).storage)

\* C5 as stated: insert of an absent key doubles the capacity exactly when
\* len * 100 >= capacity * 85, and leaves it unchanged otherwise.
C5_GrowsAtUntruncatedLoad ==
    Running =>
        \A k \in Keys, v \in Values :
            ~Present(nodes, k) =>
                /\ insert(nodes, k, v).fatal = NoFatal
                /\ CapacityAfterInsert(k, v) =
                      IF len(nodes) * 100 >= capacity(nodes) * 85
                      THEN 2 * capacity(nodes) ELSE capacity(nodes)

\* C5, amended: insert of an absent key doubles the capacity (once) exactly
\* when capacity * 85 / 100, with the division truncated, is at most len; it
\* leaves the capacity unchanged otherwise, and never fails.
C5_GrowsAtTruncatedLoad ==
    Running =>
        \A k \in Keys, v \in Values :
            ~Present(nodes, k) =>
                /\ insert(nodes, k, v).fatal = NoFatal
                /\ CapacityAfterInsert(k, v) =
                      IF (capacity(nodes) * 85) \div 100 <= len(nodes)
                      THEN 2 * capacity(nodes) ELSE capacity(nodes)

\* an insert has doubled a table of two slots that held one key: 100 < 170
C5_Witness ==
    /\ Running
    /\ last = Op("insert", "grown")
    /\ capacity(nodes) = 4
    /\ len(nodes) = 2

\* C6: the number of live entries never exceeds 85% of the capacity.
C6_LoadAtMost85Percent ==
    Running => len(nodes) * 100 <= capacity(nodes) * 85

\* an insert has filled a table of four slots up to its threshold of three
C6_Witness ==
    /\ Running
    /\ last = Op("insert", "placed")
    /\ capacity(nodes) = 4
    /\ len(nodes) = 3

\* C7: the capacity is a power of two in every state of a live map; a
\* construction that was refused was asked for another capacity.
C7_CapacityPowerOfTwo ==
    /\ Running => \E e \in 0 .. 16 : capacity(nodes) = 2 ^ e
    /\ (last.op = "with_capacity" /\ Running) =>
          capacity(nodes) \in (0 .. MaxInitCapacity) \cup {16}

\* a resize has grown a table to eight slots
C7_Witness ==
    /\ Running
    /\ last = Op("resize", "grown")
    /\ capacity(nodes) = 8
    /\ len(nodes) >= 1

\* C8: remove of a key that is not present returns None, does not panic and
\* leaves the storage (every node, the length, the maximum distance and the
\* capacity) as it is.
C8_RemoveAbsentIsNoOp ==
    Running =>
        \A k \in Keys :
            ~Present(nodes, k) =>
                remove(nodes, k) = [storage |-> nodes, value |-> None, key |-> None,
                                    fatal |-> NoFatal]

\* a remove has left a map with stored keys and a raised maximum distance as
\* it was
C8_Witness ==
    /\ Running
    /\ last = Op("remove", "same")
    /\ len(nodes) >= 1
    /\ nodes.max_distance_to_initial_bucket >= 1

RemovedFrom(st, key, r) ==
    /\ r.fatal = NoFatal
    /\ r.value = answers[key]
    /\ r.value = get(st, key).ret
    /\ len(r.storage) = len(st) - 1
    /\ capacity(r.storage) = capacity(st)
    /\ get(r.storage, key) = [ret |-> None, fatal |-> NoFatal]
    /\ \A j \in Keys \ {key} : get(r.storage, j) = get(st, j)

\* C9: remove of a present key returns the value most recently stored for
\* it, lowers len() by one, makes the key absent and leaves every other key
\* with its value.
C9_RemovePresent ==
    Running => \A k \in Keys : Present(nodes, k) => RemovedFrom(nodes, k, remove(nodes, k))

\* a remove in a table of four slots has shifted one entry back into the last
\* slot and another, from its displacement 1, to its ideal index 0
C9_Witness ==
    /\ Running
    /\ last = Op("remove", "removed")
    /\ capacity(nodes) = 4
    /\ Occupied(nodes) = {3, 0}
    /\ nodes.nodes[0].key = 2
    /\ get_distance(nodes.nodes[0]) = 0

Overwritten(st, key, value, location, r) ==
    /\ r.fatal = NoFatal
    /\ r.storage = [st EXCEPT !.nodes[location].key = key,
                              !.nodes[location].value = value]
    /\ r.location = Some(location)
    /\ r.ret = Some(value)

\* C10: insert of a key that is present overwrites key and value in the slot
\* that holds the key: length, capacity, maximum distance and every other
\* slot stay as they are (no growth, also at the load threshold), and the
\* returned reference is to that slot and reads the new value.
C10_InsertPresentOverwrites ==
    Running =>
        \A k \in Keys, v \in Values :
            Present(nodes, k) =>
                Overwritten(nodes, k, v,
                            unwrap(get_location(nodes, k, hash(k)).location),
                            insert(nodes, k, v))

\* an insert has replaced a value in a table that is at its load threshold
C10_Witness ==
    /\ Running
    /\ last = Op("insert", "replaced")
    /\ must_grow(nodes)
    /\ len(nodes) >= 2

\* C11: in any reachable state, insert(k, v) followed at once by get(k) gives
\* Some(v), for a key that was absent or present and with or without growth;
\* the reference insert returns reads v as well.
C11_InsertThenGet ==
    Running =>
        \A k \in Keys, v \in Values :
            /\ insert(nodes, k, v).fatal = NoFatal
            /\ insert(nodes, k, v).ret = Some(v)
            /\ get(insert(nodes, k, v).storage, k) = [ret |-> Some(v), fatal |-> NoFatal]

\* an insert has grown the table to four slots, and the key it stored is read
\* back with the value of that insert while another key holds another
C11_Witness ==
    /\ Running
    /\ last = Op("insert", "grown")
    /\ capacity(nodes) = 4
    /\ \E k \in Keys : get(nodes, k).ret = Some(2) /\ answers[k] = Some(2)
    /\ \E j \in Keys : get(nodes, j).ret = Some(1)

\* C12: resize only grows.  A request below the capacity ends in the panic
\* "Can only increase the size of a hash map" (no value is returned), and a
\* request for the capacity the map has leaves the storage as it is: every
\* node, the length and the maximum distance.
C12_ResizeOnlyGrows ==
    /\ Running =>
          /\ \A n \in 0 .. (capacity(nodes) - 1) :
                resize(nodes, n) = [storage |-> nodes, fatal |-> OnlyIncrease]
          /\ resize(nodes, capacity(nodes)) = [storage |-> nodes, fatal |-> NoFatal]
    /\ fatal = OnlyIncrease => last.op = "resize"

\* a resize has been refused for asking for less than the capacity
C12_Witness ==
    /\ fatal = OnlyIncrease
    /\ last = Op("resize", "same")
    /\ \E k \in Keys : answers[k] # None

\* C13: a capacity that is not a power of two (0 among them) ends in the
\* panic "Capacity must be a power of 2", at with_capacity and at a resize to
\* a larger size; with_capacity(n) that succeeds gives n nodes without
\* a value, length 0 and maximum distance 0.
C13_NonPowerOfTwoIsFatal ==
    /\ \A cap \in 0 .. MaxCapacity :
          (last.op = "with_capacity" /\ with_capacity(cap, hasher, debug_assertions)) =>
              IF cap \in {1, 2, 4, 8, 16}
              THEN /\ Running
                   /\ DOMAIN nodes.nodes = 0 .. (cap - 1)
                   /\ \A i \in 0 .. (cap - 1) : ~has_value(nodes.nodes[i])
                   /\ len(nodes) = 0
                   /\ nodes.max_distance_to_initial_bucket = 0
              ELSE fatal = NotPowerOfTwo
    /\ Running =>
          \A n \in (capacity(nodes) + 1) .. (2 * MaxCapacity) :
              n \notin {1, 2, 4, 8, 16, 32} => resize(nodes, n).fatal = NotPowerOfTwo

\* a resize of a map that holds a key has been refused for a larger size
\* that is not a power of two
C13_Witness ==
    /\ fatal = NotPowerOfTwo
    /\ last = Op("resize", "same")
    /\ \E k \in Keys : answers[k] # None

\* the view `e` is what key resolves to in the storage st
ResolvedIn(st, key, e) ==
    /\ e.key = Some(key)
    /\ e.kind = IF Present(st, key) THEN "Occupied" ELSE "Vacant"
    /\ e.kind = "Occupied" =>
          /\ unwrap(e.location) \in Occupied(st)
          /\ st.nodes[unwrap(e.location)].key = key
    /\ e.kind = "Vacant" => \A i \in Occupied(st) : st.nodes[i].key # key

\* C14: entry(key) resolves to an Occupied view, bound to the index of the
\* slot that holds the key, exactly when the key is present, and to a Vacant
\* view exactly when it is absent; key() of the view is the key passed in;
\* and the step that opens the view leaves the map as it is.
C14_EntryResolves ==
    /\ [](Running =>
            /\ \A k \in Keys :
                  /\ entry_of(nodes, k).fatal = NoFatal
                  /\ ResolvedIn(nodes, k, entry_of(nodes, k).entry)
            /\ entry.kind # "None" => ResolvedIn(nodes, unwrap(entry.key), entry))
    /\ [][(entry.kind = "None" /\ entry'.kind # "None") =>
            (nodes' = nodes /\ answers' = answers /\ fatal' = fatal)]_vars

\* an Occupied view is open on a slot whose entry is displaced from its
\* ideal index
C14_Witness ==
    /\ Running
    /\ entry.kind = "Occupied"
    /\ get_distance(nodes.nodes[unwrap(entry.location)]) >= 1
    /\ len(nodes) = NumKeys

\* the storage r.storage holds key with value, at a length changed by `more`,
\* and every other key as st held it
StoredIn(st, key, value, more, r) ==
    /\ r.fatal = NoFatal
    /\ get(r.storage, key) = [ret |-> Some(value), fatal |-> NoFatal]
    /\ len(r.storage) = len(st) + more
    /\ \A j \in Keys \ {key} : get(r.storage, j) = get(st, j)

\* C15: on an Occupied view of key k, get reads the stored value; insert(v)
\* replaces the value, returns the one before and keeps len(); remove returns
\* the stored value, makes k absent and lowers len() by one.  On a Vacant
\* view, insert(v) makes k present with v and raises len() by one.  Every
\* other key keeps its value in each case.
C15_EntryOperations ==
    Running =>
        /\ entry.kind = "Occupied" =>
              /\ OccupiedEntry_get(nodes, unwrap(entry.location))
                    = [ret |-> answers[unwrap(entry.key)], fatal |-> NoFatal]
              /\ \A v \in Values :
                    /\ StoredIn(nodes, unwrap(entry.key), v, 0,
                                OccupiedEntry_insert_at(nodes, unwrap(entry.location), v))
                    /\ OccupiedEntry_insert_at(nodes, unwrap(entry.location), v).ret
                          = answers[unwrap(entry.key)]
              /\ RemovedFrom(nodes, unwrap(entry.key),
                             remove_from_location(nodes, unwrap(entry.location)))
        /\ entry.kind = "Vacant" =>
              \A v \in Values :
                  StoredIn(nodes, unwrap(entry.key), v, 1,
                           insert(nodes, unwrap(entry.key), v))

\* an Occupied view has replaced the value of its key, among other keys, and
\* is still open
C15_Witness ==
    /\ Running
    /\ entry.kind = "Occupied"
    /\ last = Op("OccupiedEntry::insert", "replaced")
    /\ len(nodes) >= 2

\* the items a for loop over the map gets: (key, value) pairs
Items(st) == Iter_collect(into_iter(st).map, into_iter(st).at)

\* the index of the slot that holds key
SlotOf(st, key) == unwrap(get_location(st, key, hash(key)).location)

\* C17: iterating a map that is not changed meanwhile gives every live
\* (key, value) pair exactly once and nothing else, in increasing order of
\* the slot index, so len() items in all; and an iterator that has returned
\* None returns None again.
C17_IterationYieldsLivePairs ==
    Running =>
        /\ Len(Items(nodes)) = len(nodes)
        /\ \A k \in Keys :
              answers[k] # None =>
                  \E i \in 1 .. Len(Items(nodes)) :
                      Items(nodes)[i] = <<k, unwrap(answers[k])>>
        /\ \A i \in 1 .. Len(Items(nodes)) :
              /\ Items(nodes)[i][1] \in Keys
              /\ answers[Items(nodes)[i][1]] = Some(Items(nodes)[i][2])
        /\ \A i, j \in 1 .. Len(Items(nodes)) :
              /\ Items(nodes)[i][1] = Items(nodes)[j][1] => i = j
              /\ i < j => SlotOf(nodes, Items(nodes)[i][1]) < SlotOf(nodes, Items(nodes)[j][1])
        /\ \A at \in 0 .. (capacity(nodes) + 1) :
              Iter_next(nodes, at).item = None =>
                  /\ Iter_next(nodes, Iter_next(nodes, at).at).item = None
                  /\ Iter_next(nodes, at).at >= capacity(nodes)

\* a table of four slots with an empty slot in the middle holds three keys,
\* and the iteration gives the smallest key last
C17_Witness ==
    /\ Running
    /\ capacity(nodes) = 4
    /\ ~has_value(nodes.nodes[2])
    /\ Len(Items(nodes)) = 3
    /\ Items(nodes)[3][1] = 0

\* C18: map[key] gives the value get(key) gives when the key is present, and
\* ends in the panic "no entry found for key" (not in an absent result) when
\* it is missing; it reads the map and changes nothing of it.
C18_IndexIsGetOrFatal ==
    /\ Running =>
          \A k \in Keys :
              IF Present(nodes, k)
              THEN /\ index(nodes, k) = get(nodes, k)
                   /\ index(nodes, k) = [ret |-> answers[k], fatal |-> NoFatal]
              ELSE index(nodes, k).fatal = NoEntryFound
    /\ fatal = NoEntryFound => last = Op("index", "same")

\* map[key] has ended the program for a missing key while other keys were
\* stored
C18_Witness ==
    /\ fatal = NoEntryFound
    /\ \E k \in Keys : answers[k] = None
    /\ \E k \in Keys : answers[k] # None

\* C16: a get-or-initialise through the entry API invokes the hasher once on
\* the key: entry(key) hashes it, and the insert of the Vacant view places
\* the key without hashing it again.
C16_HashedOnce == Alive => Len(hashed) <= 1

\* insert(key, value) on the storage st, whose slot `location` holds a clone
\* of the key: what is dropped is the pair that was stored, once each
Overridden(st, location, key, value, r, drops) ==
    /\ r.fatal = NoFatal
    /\ st.nodes[location].key # key
    /\ st.nodes[location].value # value
    /\ key_eq(st.nodes[location].key, key)
    /\ drops = <<Key(st.nodes[location].key), Value(st.nodes[location].value)>>
    /\ Count(drops, Key(key)) = 0
    /\ Count(drops, Value(value)) = 0
    /\ r.storage.nodes[location].key = key
    /\ r.storage.nodes[location].value = value

\* C19: insert(k', v') over a present key drops the key and the value that
\* were stored, once each and at that call, and drops neither the new key
\* nor the new value, which are in the map afterwards; what is in the map
\* has not been dropped.
C19_OverrideDropsOldPair ==
    Alive =>
        /\ \A id \in Keys :
              Present(nodes, id) =>
                  Overridden(nodes, SlotOf(nodes, id),
                             new_key(id, drop_registry.created + 1),
                             drop_registry.created + 2,
                             insert(nodes, new_key(id, drop_registry.created + 1),
                                    drop_registry.created + 2),
                             insert_dropped(nodes, new_key(id, drop_registry.created + 1),
                                            drop_registry.created + 2,
                                            get_location(nodes, id, hash(id))))
        /\ \A i \in Occupied(nodes) :
              /\ drop_registry.are_dropped[Key(nodes.nodes[i].key)] = 0
              /\ drop_registry.are_dropped[Value(nodes.nodes[i].value)] = 0

\* an insert has overridden a key: a key and a value are dropped once, and
\* the map holds a later clone of a key
C19_Witness ==
    /\ Alive
    /\ last = Op("insert", "replaced")
    /\ \E i \in Occupied(nodes) : nodes.nodes[i].key >= NumIds * 3
    /\ \E k \in KeyInstances :
          /\ Key(k) \in DOMAIN drop_registry.are_dropped
          /\ drop_registry.are_dropped[Key(k)] = 1
    /\ \E v \in 1 .. MaxDroppables :
          /\ Value(v) \in DOMAIN drop_registry.are_dropped
          /\ drop_registry.are_dropped[Value(v)] = 1

\* the number of slots of st that hold the payload
StoredCount(st, payload) ==
    Cardinality({i \in Occupied(st) :
                    payload \in {Key(st.nodes[i].key), Value(st.nodes[i].value)}})

\* 1 if the open view owns the payload (the key passed to entry)
HeldByView(payload) ==
    IF entry.kind # "None" /\ payload = Key(unwrap(entry.key)) THEN 1 ELSE 0

\* C20: over any sequence of insert, remove, resize and entry calls and the
\* drop of the map, every key and value handed to the map is, at each moment,
\* in exactly one place: in one slot of the map, in the open view, dropped
\* once, or handed back to the caller once.  So nothing is dropped twice or
\* while it is in the map; growth drops nothing and keeps every payload in
\* one slot; the drop of the map drops each live payload once, nothing for a
\* node without a value, and leaves every payload released exactly once.
C20_EachPayloadReleasedOnce ==
    Running =>
        /\ \A p \in DOMAIN drop_registry.are_dropped :
              StoredCount(nodes, p) + HeldByView(p)
                + drop_registry.are_dropped[p] + drop_registry.handed_back[p] = 1
        /\ \A i \in Occupied(nodes) :
              {Key(nodes.nodes[i].key), Value(nodes.nodes[i].value)}
                  \subseteq DOMAIN drop_registry.are_dropped
        /\ last.op = "drop" =>
              \A p \in DOMAIN drop_registry.are_dropped :
                  drop_registry.are_dropped[p] + drop_registry.handed_back[p] = 1
        /\ Alive =>
              /\ resize_dropped(nodes, 2 * capacity(nodes)) = <<>>
              /\ \A p \in DOMAIN drop_registry.are_dropped :
                    StoredCount(resize(nodes, 2 * capacity(nodes)).storage, p)
                        = StoredCount(nodes, p)
              /\ Len(Vec_drop(nodes, 0)) = 2 * len(nodes)
              /\ \A p \in DOMAIN drop_registry.are_dropped :
                    Count(Vec_drop(nodes, 0), p) = StoredCount(nodes, p)

\* a map that held entries has been dropped after every Droppable of the run
\* was handed to it, one of them handed back by a removal
C20_Witness ==
    /\ last = Op("drop", "removed")
    /\ drop_registry.created = MaxDroppables
    /\ \E p \in DOMAIN drop_registry.handed_back : drop_registry.handed_back[p] = 1

\* the capacity of the map of can_insert_more_than_initial_capacity after i
\* inserts: a doubling by the insert that finds capacity * 85 / 100 <= len
SequentialCapacity(i) ==
    IF i <= 13 THEN 16 ELSE IF i <= 27 THEN 32 ELSE IF i <= 54 THEN 64 ELSE 128

\* the first i sequential keys are stored in st with their values
SequentialStored(st, i) ==
    \A k \in 0 .. (i - 1) : get(st, k) = [ret |-> Some(k % 4), fatal |-> NoFatal]

\* C21: whatever the hashes of the keys, the i-th insert of 65 distinct keys
\* into a map of capacity 16 succeeds, the length is the number of inserts, the
\* capacity has gone through the doublings 16, 32, 64, 128 at the loads that
\* trigger them, and every key inserted so far is retrievable with its value,
\* so that the run ends with 65 entries in 128 slots.
C21_SixtyFiveKeys ==
    /\ fatal = NoFatal
    /\ len(nodes) = Sequential_i
    /\ capacity(nodes) = SequentialCapacity(Sequential_i)
    /\ SequentialStored(nodes, Sequential_i)

\* the same run without the overflow check of hash + distance, or with hashes
\* that stay away from the top of the 32-bit range
C21_WithoutAddOverflow ==
    (~debug_assertions \/ hasher # TopHasher) => C21_SixtyFiveKeys

\* the run has ended with all 65 keys in 128 slots
C21_AllInserted ==
    /\ fatal = NoFatal
    /\ Sequential_i = NumIds
    /\ len(nodes) = 65
    /\ capacity(nodes) = 128

\* C22: in every reachable state the bound max_distance_to_initial_bucket is
\* at least the distance of every occupied node, and the probe of offsets
\* 0..=bound finds every stored key at the node that holds it.
C22_BoundCoversDisplacements ==
    Running =>
        \A i \in Occupied(nodes) :
            /\ get_distance(nodes.nodes[i]) <= nodes.max_distance_to_initial_bucket
            /\ get_location(nodes, nodes.nodes[i].key, nodes.nodes[i].hash)
                   = [location |-> Some(i), fatal |-> NoFatal]

\* three entries, one of them displaced as far as the bound allows
C22_Witness ==
    /\ Running
    /\ len(nodes) = 3
    /\ nodes.max_distance_to_initial_bucket >= 1
    /\ \E i \in Occupied(nodes) :
          get_distance(nodes.nodes[i]) = nodes.max_distance_to_initial_bucket

\* C23: a removal leaves max_distance_to_initial_bucket exactly as it was:
\* remove(key) for every key, and the removal at the location of every
\* occupied node (OccupiedEntry::remove and remove_entry), also when no node
\* is left at that distance; and an insert that does not grow the table
\* never lowers it.
C23_RemovalKeepsBound ==
    Running =>
        /\ \A k \in Keys :
              remove(nodes, k).storage.max_distance_to_initial_bucket
                  = nodes.max_distance_to_initial_bucket
        /\ \A i \in Occupied(nodes) :
              remove_from_location(nodes, i).storage.max_distance_to_initial_bucket
                  = nodes.max_distance_to_initial_bucket
        /\ \A k \in Keys, v \in Values :
              capacity(insert(nodes, k, v).storage) = capacity(nodes) =>
                  insert(nodes, k, v).storage.max_distance_to_initial_bucket
                      >= nodes.max_distance_to_initial_bucket

\* a removal has left entries that all sit at their ideal index, under a bound
\* that still records the distance of the entry that is gone
C23_Witness ==
    /\ Running
    /\ last.op \in {"remove", "OccupiedEntry::remove"}
    /\ len(nodes) >= 1
    /\ nodes.max_distance_to_initial_bucket >= 1
    /\ \A i \in Occupied(nodes) : get_distance(nodes.nodes[i]) = 0

\* the locations get_location examines for key from offset d on, in order
RECURSIVE Probed(_, _, _, _)
Probed(st, key, h, d) ==
    IF d > st.max_distance_to_initial_bucket THEN <<>>
    ELSE LET location == fast_mod(capacity(st), u32_add(h, d).sum)
         IN  IF \/ ~has_value(st.nodes[location])
                \/ key_eq(st.nodes[location].key, key)
             THEN <<location>>
             ELSE <<location>> \o Probed(st, key, h, d + 1)

\* the nodes of st that hold key
Holding(st, key) == {i \in Occupied(st) : key_eq(st.nodes[i].key, key)}

\* C24: in every reachable state get_location(key, hash) examines at most
\* max_distance_to_initial_bucket + 1 nodes, none after the first node
\* without a value, and is exact: it returns the index of the node that
\* holds the key if one does (wherever it lies in the table) and None if
\* none does.
C24_ProbeIsExact ==
    Running =>
        \A k \in Keys :
            /\ Len(Probed(nodes, k, hash(k), 0)) <= nodes.max_distance_to_initial_bucket + 1
            /\ \A n \in 1 .. (Len(Probed(nodes, k, hash(k), 0)) - 1) :
                  LET node == nodes.nodes[Probed(nodes, k, hash(k), 0)[n]]
                  IN  has_value(node) /\ ~key_eq(node.key, k)
            /\ get_location(nodes, k, hash(k)).fatal = NoFatal
            /\ Holding(nodes, k) = get_location(nodes, k, hash(k)).location
            /\ get_location(nodes, k, hash(k)).location
                   \subseteq {Probed(nodes, k, hash(k), 0)[n] :
                                 n \in DOMAIN Probed(nodes, k, hash(k), 0)}

\* one key is found at the last offset of the bound, and the probe for an
\* absent key ends at a node without a value after passing an occupied one
C24_Witness ==
    /\ Running
    /\ nodes.max_distance_to_initial_bucket >= 1
    /\ \E k \in Keys :
          /\ Len(Probed(nodes, k, hash(k), 0)) = nodes.max_distance_to_initial_bucket + 1
          /\ get_location(nodes, k, hash(k)).location # None
    /\ \E k \in Keys :
          /\ get_location(nodes, k, hash(k)).location = None
          /\ Len(Probed(nodes, k, hash(k), 0)) = 2
          /\ ~has_value(nodes.nodes[Probed(nodes, k, hash(k), 0)[2]])

\* the node at offset d of the probe path of the hash h
PathNode(st, h, d) == st.nodes[fast_mod(capacity(st), u32_add(h, d).sum)]

\* the first offset of the path of h where a candidate is put down: at a node
\* without a value, or at an occupant whose distance is below the offset
\* (or equal to it, if equal is TRUE)
Landing(st, h, equal) ==
    LET lands(d) == \/ ~has_value(PathNode(st, h, d))
                    \/ get_distance(PathNode(st, h, d)) < d
                    \/ equal /\ get_distance(PathNode(st, h, d)) = d
    IN  CHOOSE d \in 0 .. capacity(st) :
            lands(d) /\ \A e \in 0 .. (d - 1) : ~lands(e)

\* insert_new of an absent key puts it down at the offset Landing gives
LandsAt(st, key, value, equal) ==
    LET r == insert_new(st, key, value, hash(key))
        d == Landing(st, hash(key), equal)
    IN  /\ r.fatal = NoFatal
        /\ r.location = fast_mod(capacity(st), u32_add(hash(key), d).sum)
        /\ r.storage.nodes[r.location] = [new_with(key, value, hash(key))
                                            EXCEPT !.distance_to_initial_bucket = d]

\* the keys insert_new may be called with in st
Insertable(st) == {k \in Keys : ~Present(st, k) /\ insert_new_precondition(st)}

\* C25 as stated: the candidate of insert_new takes the place of an occupant
\* only if the occupant's distance is strictly smaller than its own; an
\* occupant of equal distance stays and the candidate advances.
C25_SwapsOnlyIfSmaller ==
    Running =>
        \A k \in Insertable(nodes), v \in Values : LandsAt(nodes, k, v, FALSE)

\* C25: the candidate of insert_new takes the place of the first occupant
\* whose distance is smaller than or equal to its own: an occupant of equal
\* distance is evicted and advances in the candidate's place.
C25_SwapsIfSmallerOrEqual ==
    Running =>
        \A k \in Insertable(nodes), v \in Values :
            /\ LandsAt(nodes, k, v, TRUE)
            /\ LET d == Landing(nodes, hash(k), TRUE)
                   occupant == PathNode(nodes, hash(k), d)
               IN  has_value(occupant) =>
                       \E i \in Occupied(insert_new(nodes, k, v, hash(k)).storage) :
                           /\ insert_new(nodes, k, v, hash(k)).storage.nodes[i].key
                                  = occupant.key
                           /\ get_distance(insert_new(nodes, k, v, hash(k)).storage.nodes[i])
                                  > get_distance(occupant)

\* key 1 was inserted after key 0 of the same ideal index 3: it holds that
\* node with distance 0 and key 0 has moved on to the next node
C25_Witness ==
    /\ Running
    /\ last = Op("insert", "placed")
    /\ capacity(nodes) = 4
    /\ len(nodes) = 2
    /\ nodes.nodes[3].key = 1 /\ get_distance(nodes.nodes[3]) = 0
    /\ nodes.nodes[0].key = 0 /\ get_distance(nodes.nodes[0]) = 1
    /\ answers[0] # None /\ answers[1] # None

\* the nodes of st that the call which left `to` has changed
Changed(st, to) == {i \in DOMAIN st.nodes : to.nodes[i] # st.nodes[i]}

\* C26: insert_new of an absent key returns the index of the node that holds
\* that key with the given value when the call ends, whatever the walk
\* evicted after putting it down, and counts one entry more; so insert (with
\* or without growth, the call of VacantEntry::insert too) returns a
\* reference that reads the value just inserted at a node holding the key,
\* and the unwrap of that node's value never fails.
C26_ReturnedLocationHoldsKey ==
    Running =>
        \A k \in Keys, v \in Values :
            /\ k \in Insertable(nodes) =>
                  LET r == insert_new(nodes, k, v, hash(k))
                  IN  /\ r.fatal = NoFatal
                      /\ r.location \in Occupied(r.storage)
                      /\ r.storage.nodes[r.location].key = k
                      /\ r.storage.nodes[r.location].value = v
                      /\ len(r.storage) = len(nodes) + 1
            /\ ~Present(nodes, k) =>
                  LET r == insert(nodes, k, v)
                  IN  /\ r.fatal = NoFatal
                      /\ r.ret = Some(v)
                      /\ unwrap(r.location) \in Occupied(r.storage)
                      /\ r.storage.nodes[unwrap(r.location)].key = k
                      /\ r.storage.nodes[unwrap(r.location)].value = v
                      /\ len(r.storage) = len(nodes) + 1

\* an insert_new that puts its key down at one node and then evicts two
\* entries one after the other
C26_Witness ==
    /\ Running
    /\ \E k \in Insertable(nodes) :
          LET r == insert_new(nodes, k, 1, hash(k))
          IN  /\ Cardinality(Changed(nodes, r.storage)) >= 3
              /\ r.storage.nodes[r.location].key = k
              /\ has_value(nodes.nodes[r.location])

\* the index e nodes after location, wrapping
Following(st, location, e) == (location + e) % capacity(st)

\* the number of nodes from location to the end of the backward shift: the
\* first node after location without a value or with distance 0 stops it
ShiftEnd(st, location) ==
    LET stops(e) == \/ ~has_value(st.nodes[Following(st, location, e)])
                    \/ get_distance(st.nodes[Following(st, location, e)]) = 0
    IN  CHOOSE e \in 1 .. capacity(st) : stops(e) /\ \A f \in 1 .. (e - 1) : ~stops(f)

\* C27: in every reachable state the removal at any occupied node (and remove
\* of any key) ends without the panic "Cannot decrement distance to below 0":
\* the shift stops before the first following node that has no value or has
\* distance 0, each node before that one has distance >= 1 and is moved one
\* index back with its distance one lower, every other node stays as it is,
\* and exactly one node that had a value is left without one.
C27_BackwardShiftIsSafe ==
    Running =>
        /\ \A k \in Keys : remove(nodes, k).fatal = NoFatal
        /\ \A i \in Occupied(nodes) :
              LET r == remove_from_location(nodes, i)
                  end == ShiftEnd(nodes, i)
                  shifted == {Following(nodes, i, e) : e \in 0 .. (end - 1)}
              IN  /\ r.fatal = NoFatal
                  /\ \A e \in 1 .. (end - 1) :
                        /\ get_distance(nodes.nodes[Following(nodes, i, e)]) >= 1
                        /\ r.storage.nodes[Following(nodes, i, e - 1)]
                               = [nodes.nodes[Following(nodes, i, e)]
                                     EXCEPT !.distance_to_initial_bucket = @ - 1]
                  /\ \A j \in DOMAIN nodes.nodes \ shifted :
                        r.storage.nodes[j] = nodes.nodes[j]
                  /\ Occupied(nodes) \ Occupied(r.storage)
                         = {Following(nodes, i, end - 1)}
                  /\ Occupied(r.storage) \subseteq Occupied(nodes)

\* after a removal, the removal at one of the two remaining nodes stops at
\* once at the following entry, which sits at its ideal index
C27_Witness ==
    /\ Running
    /\ last = Op("remove", "removed")
    /\ len(nodes) = 2
    /\ \E i \in Occupied(nodes) :
          /\ ShiftEnd(nodes, i) = 1
          /\ has_value(nodes.nodes[Following(nodes, i, 1)])
          /\ get_distance(nodes.nodes[Following(nodes, i, 1)]) = 0
          /\ remove_from_location(nodes, i).fatal = NoFatal

\* the precondition of insert_new(key, ..) on the table st: the key is in no
\* node of st and the debug_assert of insert_new holds
MayInsertNew(st, key) == Holding(st, key) = {} /\ insert_new_precondition(st)

\* the table that insert hands to insert_new for an absent key
InsertTarget(st) ==
    IF must_grow(st) THEN resize(st, capacity(st) * 2).storage ELSE st

\* the new table of resized_to(new_size) when the drain loop comes to node i
DrainedBefore(st, new_size, i) ==
    resized_to_from(st, [storage |-> with_size(new_size), fatal |-> NoFatal], 0, i).storage

\* C28: every call of insert_new meets its precondition, on builds with and
\* without the assertion: the call of insert (and so of VacantEntry::insert)
\* for an absent key, after the growth if there is one, and the call for each
\* entry that a resize (the doubling of insert or a requested one) re-inserts;
\* no call ends in the panic of the assertion.
C28_InsertNewPrecondition ==
    /\ fatal # NoSpace
    /\ Running =>
          /\ \A k \in Keys :
                /\ ~Present(nodes, k) => MayInsertNew(InsertTarget(nodes), k)
                /\ \A v \in Values : insert(nodes, k, v).fatal = NoFatal
          /\ \A n \in GrowthTargets(nodes) :
                /\ resize(nodes, n).fatal = NoFatal
                /\ \A i \in Occupied(nodes) :
                      /\ MayInsertNew(DrainedBefore(nodes, n, i), nodes.nodes[i].key)
                      /\ len(DrainedBefore(nodes, n, i))
                             = Cardinality({j \in Occupied(nodes) : j < i})

\* an assertion-checked insert through a Vacant view has doubled a full
\* table of two nodes, re-inserted its entry and added the new one
C28_Witness ==
    /\ Running
    /\ debug_assertions
    /\ last = Op("VacantEntry::insert", "grown")
    /\ capacity(nodes) = 4
    /\ len(nodes) = 2

\* the Occupied or Vacant view that entry(key) opens on st
ViewOf(st, key) == entry_of(st, key).entry

\* a helper kept the entry of key: nothing is changed, the stored value is
\* returned and the closure was not called
KeptBy(st, key, r, calls) ==
    /\ r.fatal = NoFatal
    /\ r.storage = st
    /\ r.ret = get(st, key).ret
    /\ calls = 0

\* a helper inserted value for key: one entry more, the value is stored and
\* returned, the other keys are as before and the closure was called once
InitializedBy(st, key, value, r, calls) ==
    /\ StoredIn(st, key, value, 1, r)
    /\ r.ret = Some(value)
    /\ calls = 1

GetOrInitialize(st, key, value, r, calls) ==
    IF Present(st, key) THEN KeptBy(st, key, r, calls)
    ELSE InitializedBy(st, key, value, r, calls)

\* C29: on the view of any key in any reachable state, or_insert(v),
\* or_insert_with(f), or_insert_with_key(f) and or_default() return the
\* stored value and change nothing when the key is present, without calling
\* f, and insert v, f(), f(&key) or the default with len + 1 when it is
\* absent; and_modify(f) replaces the value of a present key by what f makes
\* of it and gives the Occupied view back, and for an absent key changes
\* nothing, does not call f and gives the Vacant view back.
C29_EntryHelpers ==
    Running =>
        \A k \in Keys :
            /\ \A v \in Values :
                  GetOrInitialize(nodes, k, v, or_insert(nodes, ViewOf(nodes, k), v),
                                  IF Present(nodes, k) THEN 0 ELSE 1)
            /\ \A f \in Closures :
                  GetOrInitialize(nodes, k, f, or_insert_with(nodes, ViewOf(nodes, k), f),
                                  or_insert_with(nodes, ViewOf(nodes, k), f).calls)
            /\ \A f \in KeyClosures :
                  GetOrInitialize(nodes, k, f[k],
                                  or_insert_with_key(nodes, ViewOf(nodes, k), f),
                                  or_insert_with_key(nodes, ViewOf(nodes, k), f).calls)
            /\ GetOrInitialize(nodes, k, Default_default,
                               or_default(nodes, ViewOf(nodes, k)),
                               IF Present(nodes, k) THEN 0 ELSE 1)
            /\ \A f \in Modifiers :
                  LET r == and_modify(nodes, ViewOf(nodes, k), f)
                  IN  /\ r.fatal = NoFatal
                      /\ r.entry = ViewOf(nodes, k)
                      /\ len(r.storage) = len(nodes)
                      /\ \A j \in Keys \ {k} : get(r.storage, j) = get(nodes, j)
                      /\ IF Present(nodes, k)
                         THEN /\ r.calls = 1
                              /\ get(r.storage, k).ret = Some(f[unwrap(get(nodes, k).ret)])
                         ELSE /\ r.calls = 0
                              /\ r.storage = nodes

\* and_modify has changed the value under an Occupied view, which is still
\* open, while another key is absent and a third one present
C29_Witness ==
    /\ Running
    /\ last = Op("Entry::and_modify", "replaced")
    /\ entry.kind = "Occupied"
    /\ get(nodes, unwrap(entry.key)).ret = answers[unwrap(entry.key)]
    /\ \E k \in Keys : ~Present(nodes, k)
    /\ len(nodes) = 2

\* take_key_value of a node with a value gives Some((key, value, hash)) and
\* leaves the node without a value
TakesPayload(node) ==
    /\ take_key_value(node).taken = Some(<<node.key, node.value, node.hash>>)
    /\ ~has_value(take_key_value(node).node)
    /\ key_ref(take_key_value(node).node) = None
    /\ value_ref(take_key_value(node).node) = None

\* the nodes of st without a value
Empty(st) == DOMAIN st.nodes \ Occupied(st)

\* C30 as stated: take_key_value moves (key, value, hash) out of a node with
\* a value and leaves it without one, and is a fatal error on a node without
\* a value: so a resize, which takes from every node of the old table, ends
\* in a panic whenever one of them has no value.
C30_TakeOfEmptyIsFatal ==
    Running =>
        /\ \A i \in Occupied(nodes) : TakesPayload(nodes.nodes[i])
        /\ \A i \in Empty(nodes) : take_key_value(nodes.nodes[i]).taken # None
        /\ Empty(nodes) # {} =>
              \A n \in GrowthTargets(nodes) : resize(nodes, n).fatal # NoFatal

\* C30: take_key_value moves (key, value, hash) out of a node with a value
\* and leaves it without one; on a node without a value it returns None and
\* leaves the node as it is, with no panic: a resize takes from every node
\* and ends without one, and the unwrap of remove_from_location, the only
\* caller that would turn a None into a panic, always finds a payload.
C30_TakeOfEmptyIsNone ==
    Running =>
        /\ \A i \in Occupied(nodes) :
              /\ TakesPayload(nodes.nodes[i])
              /\ remove_from_location(nodes, i).fatal = NoFatal
        /\ \A i \in Empty(nodes) :
              take_key_value(nodes.nodes[i]) = [node |-> nodes.nodes[i], taken |-> None]
        /\ \A n \in GrowthTargets(nodes) :
              /\ resize(nodes, n).fatal = NoFatal
              /\ len(resize(nodes, n).storage) = len(nodes)

\* a resize has taken from every node of a table that had nodes with and
\* nodes without a value
C30_Witness ==
    /\ Running
    /\ last = Op("resize", "grown")
    /\ len(nodes) = 2
    /\ capacity(nodes) = 8
    /\ Empty(nodes) # {}

\* C31: no operation lowers the capacity.  From every reachable state: an
\* insert of an absent key (HashMap::insert, which VacantEntry::insert and
\* the or_ helpers of a Vacant view call) keeps the capacity or doubles it; a
\* resize that returns gives the requested capacity, which is not below the
\* old one, and a refused one changes nothing; remove, the operations of an
\* Occupied view, and_modify, the or_ helpers of an Occupied view and the
\* insert of a present key leave the capacity as it is.  (get, get_mut, entry
\* and iteration read through the storage and return no new one.)
C31_CapacityNeverDecreases ==
    Running =>
        /\ \A k \in Keys :
              /\ capacity(remove(nodes, k).storage) = capacity(nodes)
              /\ \A v \in Values :
                    /\ capacity(insert(nodes, k, v).storage)
                           = IF ~Present(nodes, k) /\ must_grow(nodes)
                             THEN 2 * capacity(nodes) ELSE capacity(nodes)
                    /\ capacity(or_insert(nodes, ViewOf(nodes, k), v).storage)
                           >= capacity(nodes)
                    /\ Present(nodes, k) =>
                          capacity(or_insert(nodes, ViewOf(nodes, k), v).storage)
                              = capacity(nodes)
              /\ \A f \in Modifiers :
                    capacity(and_modify(nodes, ViewOf(nodes, k), f).storage)
                        = capacity(nodes)
        /\ \A i \in Occupied(nodes) :
              /\ capacity(remove_from_location(nodes, i).storage) = capacity(nodes)
              /\ \A v \in Values :
                    capacity(OccupiedEntry_insert_at(nodes, i, v).storage)
                        = capacity(nodes)
        /\ \A n \in 0 .. (2 * MaxCapacity) :
              IF resize(nodes, n).fatal = NoFatal
              THEN /\ capacity(resize(nodes, n).storage) = n
                   /\ n >= capacity(nodes)
              ELSE resize(nodes, n).storage = nodes

\* a removal has emptied a table of four nodes: the capacity is still four
C31_Witness ==
    /\ Running
    /\ last = Op("remove", "removed")
    /\ len(nodes) = 0
    /\ capacity(nodes) = 4
    /\ \A k \in Keys : answers[k] = None

\* the index before i, wrapping
Preceding(st, i) == (i + capacity(st) - 1) % capacity(st)

\* C32: in every reachable state, the node before (wrapping) an occupied node
\* of distance d >= 1 is occupied and has a distance of at least d - 1; so
\* every node from the ideal index of an entry to the node that holds it is
\* occupied.
C32_ProbeRunsAreContiguous ==
    Running =>
        \A i \in Occupied(nodes) :
            LET d == get_distance(nodes.nodes[i])
            IN  /\ d >= 1 =>
                      /\ Preceding(nodes, i) \in Occupied(nodes)
                      /\ get_distance(nodes.nodes[Preceding(nodes, i)]) >= d - 1
                /\ \A e \in 0 .. d :
                      has_value(PathNode(nodes, nodes.nodes[i].hash, e))
                /\ PathNode(nodes, nodes.nodes[i].hash, d) = nodes.nodes[i]

\* a run of three entries: an entry at distance 1 follows an entry of another
\* ideal index that is at distance 1 as well
C32_Witness ==
    /\ Running
    /\ len(nodes) = 3
    /\ \E i \in Occupied(nodes) :
          /\ get_distance(nodes.nodes[i]) = 1
          /\ get_distance(nodes.nodes[Preceding(nodes, i)]) = 1
          /\ fast_mod(capacity(nodes), nodes.nodes[i].hash)
                 # fast_mod(capacity(nodes), nodes.nodes[Preceding(nodes, i)].hash)

\* C33: whatever the 32-bit hashes of the keys, the sum hash + distance of
\* insert_new and get_location stays below 2^32: no insert and no lookup of
\* the sequential run ends in the panic of an overflowing addition, and the
\* sum at the offset where each entry lies fits in 32 bits.
C33_ProbeSumFits ==
    /\ fatal # AddOverflow
    /\ \A i \in Occupied(nodes) :
          ~u32_add(nodes.nodes[i].hash, get_distance(nodes.nodes[i])).overflow
    /\ fatal = NoFatal =>
          \A k \in SequentialKeys : get(nodes, k).fatal # AddOverflow

\* the sum has overflowed on a build without the check: the add wrapped, the
\* walk went on from node 0 and every key is stored and found
C33_WrappedAround ==
    /\ ~debug_assertions
    /\ hasher = TopHasher
    /\ Sequential_i = NumIds
    /\ SequentialStored(nodes, NumIds)
    /\ \E i \in Occupied(nodes) :
          u32_add(nodes.nodes[i].hash, get_distance(nodes.nodes[i])).overflow

\* the walk insert_new starts on st for key
WalkOf(st, key, value) ==
    [storage |-> st, new_node |-> new_with(key, value, hash(key)),
     location |-> USIZE_MAX, fatal |-> NoFatal, done |-> FALSE]

\* the backward shift from location meets, within capacity nodes, a node
\* that stops it
ShiftStops(st, location) ==
    \E e \in 1 .. capacity(st) :
        \/ ~has_value(st.nodes[Following(st, location, e)])
        \/ get_distance(st.nodes[Following(st, location, e)]) = 0

\* C34: every reachable table, those created with capacity 1 or 2 too, has
\* len < capacity, so a node without a value; the table that insert hands to
\* insert_new (after the doubling, if any) and each partly filled table of a
\* resize have one as well; the loop of insert_new ends within capacity
\* turns and the backward shift of remove_from_location within capacity nodes.
C34_AlwaysAnEmptyNode ==
    Running =>
        /\ len(nodes) < capacity(nodes)
        /\ Cardinality(Occupied(nodes)) = len(nodes)
        /\ Empty(nodes) # {}
        /\ \A k \in Keys :
              ~Present(nodes, k) =>
                  /\ len(InsertTarget(nodes)) < capacity(InsertTarget(nodes))
                  /\ insert_new_turns(WalkOf(InsertTarget(nodes), k, 1),
                                      capacity(InsertTarget(nodes))).done
                  /\ len(insert(nodes, k, 1).storage) < capacity(insert(nodes, k, 1).storage)
        /\ \A n \in GrowthTargets(nodes), i \in Occupied(nodes) :
              len(DrainedBefore(nodes, n, i)) < n
        /\ \A i \in Occupied(nodes) :
              /\ ShiftStops(nodes, i)
              /\ ShiftEnd(nodes, i) <= capacity(nodes)

\* a table created with one node was doubled by its first insert and holds
\* one entry in two nodes
C34_Witness ==
    /\ Running
    /\ last = Op("insert", "grown")
    /\ capacity(nodes) = 2
    /\ len(nodes) = 1

\* the largest distance among the occupied nodes of st, 0 if there is none
LargestDistance(st) ==
    IF Occupied(st) = {} THEN 0
    ELSE CHOOSE d \in {get_distance(st.nodes[i]) : i \in Occupied(st)} :
             \A i \in Occupied(st) : get_distance(st.nodes[i]) <= d

\* C35: right after a growth (a resize to any larger power of two, the
\* doubling of insert before its insert_new among them) the bound
\* max_distance_to_initial_bucket of the new table is exactly the largest
\* distance among its occupied nodes, 0 for a table without entries, however
\* large the bound of the old table was; and no operation on an existing
\* table lowers the bound.
C35_GrowthRecomputesBound ==
    Running =>
        /\ \A n \in GrowthTargets(nodes) :
              /\ resize(nodes, n).fatal = NoFatal
              /\ resize(nodes, n).storage.max_distance_to_initial_bucket
                     = LargestDistance(resize(nodes, n).storage)
              /\ len(nodes) = 0 =>
                    resize(nodes, n).storage.max_distance_to_initial_bucket = 0
        /\ must_grow(nodes) =>
              InsertTarget(nodes).max_distance_to_initial_bucket
                  = LargestDistance(InsertTarget(nodes))
        /\ \A i \in Occupied(nodes), v \in Values :
              /\ OccupiedEntry_insert_at(nodes, i, v).storage.max_distance_to_initial_bucket
                     = nodes.max_distance_to_initial_bucket
              /\ remove_from_location(nodes, i).storage.max_distance_to_initial_bucket
                     = nodes.max_distance_to_initial_bucket
              /\ replace_at_location(nodes, i, nodes.nodes[i].key, v)
                     .max_distance_to_initial_bucket
                     = nodes.max_distance_to_initial_bucket

\* after a removal the bound is above every distance that is left, and the
\* doubling of the table brings it down to 0 with an entry in the table
C35_Witness ==
    /\ Running
    /\ last.op = "remove"
    /\ len(nodes) >= 1
    /\ nodes.max_distance_to_initial_bucket > LargestDistance(nodes)
    /\ resize(nodes, 2 * capacity(nodes)).storage.max_distance_to_initial_bucket = 0


\* the enemy is in its dying state: a slime Dying, a snail in Death
IsDying(e) ==
    \/ e.kind = "Slime" /\ e.state = "Dying"
    \/ e.kind = "Snail" /\ e.state = "Death"

\* the frames from the entry into the dying state to the removal
DyingFrames(e) == IF e.kind = "Slime" THEN 16 ELSE 48

\* one update of an enemy that is dying or Empty: it returns None; a dying
\* enemy stays in the dying state it entered, or is replaced by Empty, and
\* that exactly on the update whose timer is DyingFrames past the entry; an
\* Empty enemy stays Empty
DyingUpdate ==
    /\ IsDying(enemy) =>
          /\ enemy'.ret = "None"
          /\ IF enemy.timer = enemy.start + DyingFrames(enemy)
             THEN enemy'.kind = "Empty"
             ELSE /\ enemy'.kind = enemy.kind
                  /\ enemy'.state = enemy.state
                  /\ enemy'.start = enemy.start
    /\ enemy.kind = "Empty" =>
          enemy'.kind = "Empty" /\ enemy'.ret = "None"

\* C36: with the frame timer advancing by 1 per update, an enemy that has
\* entered its dying state (Slime Dying, Snail Death) has not returned
\* KillPlayer on entering it and is updated next no later than 16 (slime) or
\* 48 (snail) frames past the entry; every update of it returns None and
\* leaves it in the same dying state, except the update at which the timer
\* is 16 (slime) or 48 (snail) frames past the entry, which replaces it by
\* Enemy::Empty; and every update of an Empty enemy returns None and leaves
\* it Empty
C36_DyingEnemyIsRemoved ==
    /\ [](IsDying(enemy) =>
            /\ enemy.ret = "None"
            /\ enemy.timer - enemy.start \in 1 .. DyingFrames(enemy))
    /\ [](enemy.kind = "Empty" => enemy.ret = "None")
    /\ [][DyingUpdate]_vars

\* a snail that retreated into its shell and was killed afterwards is on the
\* last frame of its death: the next update removes it
C36_Witness ==
    /\ enemy.kind = "Snail"
    /\ enemy.state = "Death"
    /\ enemy.start > 240
    /\ enemy.timer = enemy.start + 48
    /\ enemy.ret = "None"

====
